---------------------------- MODULE Spec2Model ----------------------------
(***************************************************************************)
(* A model of sedeuce (src/src/sedeuce/sed.py): the line sources, the      *)
(* working data (pattern space, hold space, insert/append queues), the     *)
(* commands (s, a, i, d, p, c, h, G, b, t, T, q, Q, n, N, R, the labels     *)
(* and others), the parser of the scripts, and the                         *)
(* loops of Sed.execute over the files, the lines and the commands, with   *)
(* the replacement of a file edited in place.                              *)
(*                                                                         *)
(* Bytes are one-character strings, or their values 0..255 in the runs of *)
(* l and F; byte strings are sequences of them.                           *)
(* Python's None is the empty tuple None, a present value b is Some(b).    *)
(***************************************************************************)
EXTENDS Integers, Sequences, FiniteSets, TLC

VARIABLES
    commands,          \* Sed._commands: the compiled program
    files,             \* the list `files' of Sed.execute: paths, or the label of stdin
    file_idx,          \* how many of them `for file in files' has taken
    fs,                \* the file system: the bytes under each name (None: no such file)
    in_place,          \* Sed.in_place
    in_place_backup_suffix,  \* Sed.in_place_backup_suffix (None or Some(suffix))
    exit_code,         \* what Sed.execute returned (None while it runs)
    in_kind,           \* "stdin" (StdinIterable) or "file" (AutoInputFileIterable)
    in_data,           \* bytes of the input not read yet
    in_eof,            \* StdinIterable._eof_detected / AutoInputFileIterable._fp is None
    in_file_iter,      \* WorkingData.in_file_iter is not None
    newline,           \* WorkingData.newline
    line_number,       \* WorkingData.line_number
    pattern_modified,  \* WorkingData.pattern_modified
    file_modified,     \* WorkingData.file_modified
    insert_space,      \* WorkingData.insert_space (None or Some(bytes))
    pattern_space,     \* WorkingData._pattern_space (None or Some(bytes))
    append_space,      \* WorkingData.append_space (None or Some(bytes))
    jump_to,           \* WorkingData.jump_to
    holdspace,         \* WorkingData.holdspace
    out_file,          \* the bytes written to WorkingData.out_file (stdout, or the
                       \* temporary file of the file edited in place)
    matched_file,      \* the bytes written to the file of the `w' flag of s
    w_file,            \* the bytes written to the file of the w and W commands
    line_byte_limit,   \* FileIterable.LINE_BYTE_LIMIT as the run finds it
    script,            \* args.script: the characters of the script given to main
    stderr,            \* what main prints to stderr (None or Some(message))
    i,                 \* the index i of the command loop of Sed.execute
    pc,                \* where Sed.execute stands
    input,             \* history: the whole input of the run
    original,          \* history: the bytes of the file being processed, as set_in_file found it
    last,              \* history: what the last step of Sed.execute did
    cycle,             \* history: the commands handled since the last record was read
    acted,             \* history: some command's action has changed or printed something
    line_files,        \* the file_read and file_iter of each AppendLineFromFile object
    shared_files,      \* SharedFileWriter.files: None or Some(entry) under each path
    files_mutex,       \* SharedFileWriter.files_mutex: the value of the semaphore
    handles,           \* the file objects open() has returned, open or closed
    writers            \* the SharedFileWriter objects: where each stands, its fields

\* what the run of a script reads and writes
SedVars == <<commands, files, file_idx, fs, in_place, in_place_backup_suffix,
             exit_code, in_kind, in_data, in_eof, in_file_iter, newline, line_number,
             pattern_modified, file_modified, insert_space, pattern_space,
             append_space, jump_to, holdspace, out_file, matched_file, w_file,
             line_byte_limit, script, stderr, i, pc, input, original, last, cycle,
             acted, line_files>>

\* what the SharedFileWriter objects read and write
WriterVars == <<shared_files, files_mutex, handles, writers>>

vars == <<SedVars, WriterVars>>

-----------------------------------------------------------------------------
(* Bounds of the model *)

MaxInput == 4      \* length of the input stream of Spec
MaxLineNo == 3     \* largest line number used in an address
MaxSubInput == 4   \* length of the one input line of SpecSub
MaxNth == 3        \* largest number flag of an s command
MaxFlowInput == 4  \* length of the input stream of SpecFlow
MaxFlowLineNo == 2 \* largest line number in an address of SpecFlow
MaxFileLen == 2    \* length of a file of SpecFiles
MaxIterations == 8 \* turns counted of the loop of an s command
MaxLinesInput == 4 \* length of the input stream of SpecLines
MaxLimit == 2      \* largest LINE_BYTE_LIMIT of SpecCap
MaxCapInput == 4   \* length of the input stream of SpecCap
MaxExprs == 3      \* expressions of a script of SpecParse
MaxPatternLen == 3 \* length of a pattern handed to _pattern_escape_invert
MaxLoopInput == 3   \* length of the input stream of SpecLoop
MaxCycle == 20      \* commands of one cycle that a run is followed for
MaxNextInput == 3   \* length of the input stream of SpecNext
MaxWriters == 3    \* SharedFileWriter objects of SpecWriters

(* Program constants *)

LINE_BYTE_LIMIT == 131072

-----------------------------------------------------------------------------
(* Python values *)

None == <<>>
Some(v) == <<v>>
IsNone(x) == x = <<>>
Val(x) == x[1]

NoJump == [kind |-> "none", index |-> 0, label |-> ""]
JumpIndex(n) == [kind |-> "int", index |-> n, label |-> ""]
JumpLabel(l) == [kind |-> "label", index |-> 0, label |-> l]

(* bytes: s[a:b], s[a:], s.endswith, s.startswith, s.find, with 0-based
   positions as in Python *)
Min(a, b) == IF a < b THEN a ELSE b

Slice(s, a, b) == SubSeq(s, a + 1, Min(b, Len(s)))

SliceFrom(s, a) == SubSeq(s, a + 1, Len(s))

LastN(s, n) == IF Len(s) <= n THEN s ELSE SubSeq(s, Len(s) - n + 1, Len(s))

EndsWith(s, suffix) == Len(s) >= Len(suffix) /\ LastN(s, Len(suffix)) = suffix

StartsWith(s, prefix) == Len(s) >= Len(prefix) /\ SubSeq(s, 1, Len(prefix)) = prefix

FindAll(s, sub) == {k \in 0..(Len(s) - Len(sub)) : SubSeq(s, k + 1, k + Len(sub)) = sub}

SetMin(S) == CHOOSE m \in S : \A n \in S : m <= n

Find(s, sub) == IF FindAll(s, sub) = {} THEN -1 ELSE SetMin(FindAll(s, sub))

Truthy(x) == ~IsNone(x) /\ Val(x) # <<>>

RECURSIVE Concat(_)
Concat(ss) == IF ss = <<>> THEN <<>> ELSE Head(ss) \o Concat(Tail(ss))

-----------------------------------------------------------------------------
(* Line sources *)

(* The read loop of __next__: one byte at a time until the tail of what was
   read equals the separator or the input ends. *)
RECURSIVE ReadLoop(_, _, _, _, _)
ReadLoop(data, b, end, nl, limit) ==
    IF end = nl THEN [b |-> b, rest |-> data, eof |-> FALSE]
    ELSE IF data = <<>> THEN [b |-> b, rest |-> data, eof |-> TRUE]
    ELSE ReadLoop(Tail(data),
                  IF Len(b) < limit THEN Append(b, Head(data)) ELSE b,
                  LastN(Append(end, Head(data)), Len(nl)),
                  nl, limit)

(* AutoInputFileIterable.__next__: [stop, b, rest, eof] *)
AutoInputFileNext(data, eof, nl, limit) ==
    IF eof THEN [stop |-> TRUE, b |-> <<>>, rest |-> data, eof |-> TRUE]
    ELSE LET r == ReadLoop(data, <<>>, <<>>, nl, limit)
         IN  IF r.b # <<>>
             THEN [stop |-> FALSE, b |-> r.b, rest |-> r.rest, eof |-> r.eof]
             ELSE [stop |-> TRUE, b |-> <<>>, rest |-> r.rest, eof |-> TRUE]

(* StdinIterable.__next__ *)
StdinNext(data, eof, nl, limit) ==
    IF eof THEN [stop |-> TRUE, b |-> <<>>, rest |-> data, eof |-> TRUE]
    ELSE LET r == ReadLoop(data, <<>>, <<>>, nl, limit)
         IN  [stop |-> FALSE, b |-> r.b, rest |-> r.rest, eof |-> r.eof]

-----------------------------------------------------------------------------
(* SharedFileWriter, each object constructed by a thread and destroyed by the
   thread that drops the last reference to it *)

WriterIds == 1..MaxWriters

\* os.path.abspath(file_path) of the writers
WriterPaths == {"f", "g"}

\* the object w of before __init__ has run; file 0: no attribute _file
Unborn == [pc |-> "unborn", file_path |-> "", file |-> 0]

\* the class attributes as the module defines them, and no object yet
InitWriters ==
    /\ shared_files = [p \in WriterPaths |-> None]
    /\ files_mutex = 1
    /\ handles = <<>>
    /\ writers = [w \in WriterIds |-> Unborn]

\* the step of the object w from the place `from' to the place `to'
Goes(w, from, to) ==
    /\ writers[w].pc = from
    /\ writers' = [writers EXCEPT ![w].pc = to]

(* Semaphore.acquire as `with __class__.files_mutex' enters *)
Acquire(w, from, to) ==
    /\ files_mutex > 0
    /\ files_mutex' = files_mutex - 1
    /\ Goes(w, from, to)
    /\ UNCHANGED <<shared_files, handles, SedVars>>

(* Semaphore.release as `with __class__.files_mutex' exits, by its end or by
   an exception *)
Release(w, from, to) ==
    /\ files_mutex' = files_mutex + 1
    /\ Goes(w, from, to)
    /\ UNCHANGED <<shared_files, handles, SedVars>>

(* __init__, lines 339-340: self._file_path is set before anything is opened *)
WriterNew(w) ==
    /\ writers[w].pc = "unborn"
    /\ \E file_path \in WriterPaths :
           writers' = [writers EXCEPT ![w] = [pc |-> "init", file_path |-> file_path,
                                               file |-> 0]]
    /\ UNCHANGED <<shared_files, files_mutex, handles, SedVars>>

(* __init__, line 341 *)
WriterInitEnter(w) == Acquire(w, "init", "init_locked")

(* __init__, lines 342-356 with the entry found *)
WriterBind(w, entry) ==
    /\ shared_files' = [shared_files EXCEPT ![writers[w].file_path] =
                             Some([entry EXCEPT !.count = @ + 1])]
    /\ writers' = [writers EXCEPT ![w].pc = "init_bound", ![w].file = entry.file]

(* __init__, lines 342-356: open() returns a file object or raises *)
WriterInitBody(w) ==
    /\ writers[w].pc = "init_locked"
    /\ IF ~IsNone(shared_files[writers[w].file_path])
       THEN /\ WriterBind(w, Val(shared_files[writers[w].file_path]))
            /\ UNCHANGED handles
       ELSE \/ /\ handles' = Append(handles, [path |-> writers[w].file_path,
                                               closed |-> FALSE])
               /\ WriterBind(w, [file |-> Len(handles) + 1, count |-> 0])
            \/ /\ writers' = [writers EXCEPT ![w].pc = "init_raised"]
               /\ UNCHANGED <<shared_files, handles>>
    /\ UNCHANGED <<files_mutex, SedVars>>

(* __init__, the end of the with block and lines 357-359 *)
WriterInitExit(w) == Release(w, "init_bound", "live")

(* __init__ left by the exception of open() *)
WriterInitRaise(w) == Release(w, "init_raised", "failed")

(* __del__, line 362, of an object whose __init__ returned or raised *)
WriterDelEnter(w) ==
    \/ Acquire(w, "live", "del_locked")
    \/ Acquire(w, "failed", "del_locked")

(* __del__, lines 363-367: KeyError when the path has no entry,
   AttributeError at self._file.close() when the object has no _file *)
WriterDelBody(w) ==
    /\ Goes(w, "del_locked", "del_done")
    /\ IF IsNone(shared_files[writers[w].file_path])
       THEN UNCHANGED <<shared_files, handles>>
       ELSE IF Val(shared_files[writers[w].file_path]).count - 1 <= 0
       THEN /\ shared_files' = [shared_files EXCEPT ![writers[w].file_path] = None]
            /\ handles' = IF writers[w].file # 0
                          THEN [handles EXCEPT ![writers[w].file].closed = TRUE]
                          ELSE handles
       ELSE /\ shared_files' = [shared_files EXCEPT ![writers[w].file_path] =
                                    Some([Val(@) EXCEPT !.count = @ - 1])]
            /\ UNCHANGED handles
    /\ UNCHANGED <<files_mutex, SedVars>>

(* __del__, the end of the with block, by its end or by the exception *)
WriterDelExit(w) == Release(w, "del_done", "dead")

-----------------------------------------------------------------------------
(* WorkingData: the record d holds its fields *)

Dat == [in_data |-> in_data, in_eof |-> in_eof, in_file_iter |-> in_file_iter,
        line_number |-> line_number, pattern_modified |-> pattern_modified,
        file_modified |-> file_modified, insert_space |-> insert_space,
        pattern_space |-> pattern_space, append_space |-> append_space,
        jump_to |-> jump_to, holdspace |-> holdspace, out_file |-> out_file,
        matched_file |-> matched_file, w_file |-> w_file]

\* the dat fields and the sinks
DatVars == <<in_data, in_eof, in_file_iter, line_number, pattern_modified,
             file_modified, insert_space, pattern_space, append_space, jump_to,
             holdspace, out_file, matched_file, w_file>>

SetDat(d) ==
    /\ in_data' = d.in_data
    /\ in_eof' = d.in_eof
    /\ in_file_iter' = d.in_file_iter
    /\ line_number' = d.line_number
    /\ pattern_modified' = d.pattern_modified
    /\ file_modified' = d.file_modified
    /\ insert_space' = d.insert_space
    /\ pattern_space' = d.pattern_space
    /\ append_space' = d.append_space
    /\ jump_to' = d.jump_to
    /\ holdspace' = d.holdspace
    /\ out_file' = d.out_file
    /\ matched_file' = d.matched_file
    /\ w_file' = d.w_file

(* WorkingData._write *)
Write(d, b) == [d EXCEPT !.out_file = @ \o b]

(* WorkingData.print_bytes *)
PrintBytes(d, b) == [Write(d, b) EXCEPT !.file_modified = TRUE]

(* the pattern_space setter *)
SetPatternSpace(d, b) ==
    [d EXCEPT !.pattern_space = Some(b), !.file_modified = TRUE,
              !.pattern_modified = TRUE]

\* _flush_insert_data keeping the queue after writing it
FlushInsertData_Keep(d) ==
    IF ~IsNone(d.insert_space)
    THEN Write([d EXCEPT !.file_modified = TRUE], Val(d.insert_space))
    ELSE d

(* WorkingData._flush_insert_data *)
FlushInsertData(d) ==
    IF ~IsNone(d.insert_space)
    THEN [Write([d EXCEPT !.file_modified = TRUE], Val(d.insert_space))
            EXCEPT !.insert_space = None]
    ELSE d

(* WorkingData._flush_append_data *)
FlushAppendData(d, nl) ==
    IF ~IsNone(d.append_space)
    THEN LET d1 == [d EXCEPT !.file_modified = TRUE]
             d2 == IF Truthy(d1.pattern_space) /\ ~EndsWith(Val(d1.pattern_space), nl)
                   THEN Write(d1, nl) ELSE d1
         IN  [Write(d2, Val(d.append_space)) EXCEPT !.append_space = None]
    ELSE d

\* flush_all_data writing the pattern space only when a command modified it
FlushAllData_OnlyModified(d, nl) ==
    LET d1 == FlushInsertData(d)
        d2 == IF ~IsNone(d1.pattern_space)
              THEN [(IF d1.pattern_modified THEN Write(d1, Val(d1.pattern_space)) ELSE d1)
                      EXCEPT !.pattern_space = None, !.pattern_modified = FALSE]
              ELSE d1
    IN  FlushAppendData(d2, nl)

(* WorkingData.flush_all_data *)
FlushAllData(d, nl) ==
    LET d1 == FlushInsertData(d)
        d2 == IF ~IsNone(d1.pattern_space)
              THEN [Write(d1, Val(d1.pattern_space))
                      EXCEPT !.pattern_space = None, !.pattern_modified = FALSE]
              ELSE d1
    IN  FlushAppendData(d2, nl)

(* WorkingData.append and WorkingData.insert *)
QueueBytes(space, b, add_newline, nl) ==
    LET s == IF IsNone(space) THEN b ELSE Val(space) \o b
    IN  Some(IF add_newline /\ ~EndsWith(s, nl) THEN s \o nl ELSE s)

AppendData(d, a, add_newline, nl) ==
    [d EXCEPT !.append_space = QueueBytes(d.append_space, a, add_newline, nl),
              !.file_modified = TRUE]

InsertData(d, b, add_newline, nl) ==
    [d EXCEPT !.insert_space = QueueBytes(d.insert_space, b, add_newline, nl),
              !.file_modified = TRUE]

(* next(self.in_file_iter): the source of the kind given, under the limit
   the class holds *)
NextRecord(d, kind, nl) ==
    IF kind = "stdin" THEN StdinNext(d.in_data, d.in_eof, nl, line_byte_limit)
    ELSE AutoInputFileNext(d.in_data, d.in_eof, nl, line_byte_limit)

(* WorkingData.next_line: [ok, d] *)
NextLineData(d0, kind, nl) ==
    LET d == FlushAllData(d0, nl) IN
    IF ~d.in_file_iter THEN [ok |-> FALSE, d |-> d]
    ELSE LET r == NextRecord(d, kind, nl)
         IN  IF r.stop
             THEN [ok |-> FALSE,
                   d |-> [d EXCEPT !.in_file_iter = FALSE, !.in_data = r.rest,
                                   !.in_eof = r.eof]]
             ELSE [ok |-> TRUE,
                   d |-> [d EXCEPT !.pattern_space = Some(r.b),
                                   !.pattern_modified = FALSE,
                                   !.in_data = r.rest, !.in_eof = r.eof,
                                   !.line_number = @ + 1]]

(* WorkingData.append_next_line *)
AppendNextLineData(d0, kind, nl) ==
    IF ~d0.in_file_iter THEN FlushAllData(d0, nl)
    ELSE LET r == NextRecord(d0, kind, nl) IN
         IF r.stop
         THEN [FlushAllData(d0, nl) EXCEPT !.in_file_iter = FALSE,
                                           !.in_data = r.rest, !.in_eof = r.eof]
         ELSE LET d1 == FlushAppendData(FlushInsertData(d0), nl)
                  ps == Val(d1.pattern_space)
                  ps1 == IF ps # <<>> /\ ~EndsWith(ps, nl) THEN ps \o nl ELSE ps
              IN  [d1 EXCEPT !.pattern_space = Some(ps1 \o r.b),
                             !.in_data = r.rest, !.in_eof = r.eof,
                             !.line_number = @ + 1]

-----------------------------------------------------------------------------
(* Regular expressions.  A compiled pattern is [anchored, lit]: the literal
   bytes lit, after a leading ^ when anchored.  ReSearch is re.search,
   ReMatch is re.match and ReSub is re.sub on such a pattern. *)

Pattern(anchored, lit) == [anchored |-> anchored, lit |-> lit]

NoMatch == [found |-> FALSE, start |-> 0, end |-> 0]

ReSearch(pat, s) ==
    IF pat.anchored
    THEN IF StartsWith(s, pat.lit)
         THEN [found |-> TRUE, start |-> 0, end |-> Len(pat.lit)]
         ELSE NoMatch
    ELSE IF Find(s, pat.lit) >= 0
         THEN [found |-> TRUE, start |-> Find(s, pat.lit),
               end |-> Find(s, pat.lit) + Len(pat.lit)]
         ELSE NoMatch

ReMatch(pat, s) == StartsWith(s, pat.lit)

(* re.sub from position pos on: every non-overlapping match is replaced; an
   empty match is followed by the byte it stands before. *)
RECURSIVE ReSubFrom(_, _, _, _)
ReSubFrom(pat, repl, s, pos) ==
    LET m == ReSearch(pat, SliceFrom(s, pos)) IN
    IF pos > Len(s) \/ ~m.found \/ (pat.anchored /\ pos > 0) THEN SliceFrom(s, pos)
    ELSE IF m.end > m.start
         THEN Slice(s, pos, pos + m.start) \o repl
                  \o ReSubFrom(pat, repl, s, pos + m.end)
         ELSE repl \o Slice(s, pos, pos + 1) \o ReSubFrom(pat, repl, s, pos + 1)

ReSub(pat, repl, s) == ReSubFrom(pat, repl, s, 0)

-----------------------------------------------------------------------------
(* Conditions *)

NoCondition == [kind |-> "none", start_line |-> 0, end_line |-> 0,
                pattern |-> Pattern(FALSE, <<>>), given_end |-> None]

(* RangeSedCondition.__init__; given_end keeps the end line as it was given *)
RangeSedCondition(start_line, end_line) ==
    [kind |-> "range", start_line |-> start_line,
     end_line |-> IF ~IsNone(end_line) THEN Val(end_line) ELSE start_line,
     pattern |-> Pattern(FALSE, <<>>), given_end |-> end_line]

RegexSedCondition(lit) ==
    [kind |-> "regex", start_line |-> 0, end_line |-> 0, pattern |-> Pattern(FALSE, lit),
     given_end |-> None]

\* is_match leaving the end line out of the range
RangeIsMatch_Exclusive(cond, d) ==
    d.line_number >= cond.start_line /\ d.line_number < cond.end_line

(* RangeSedCondition.is_match *)
RangeIsMatch(cond, d) ==
    d.line_number >= cond.start_line /\ d.line_number <= cond.end_line

(* RegexSedCondition.is_match *)
RegexIsMatch(cond, d) == ReMatch(cond.pattern, Val(d.pattern_space))

(* the test of SedCommand.handle *)
ConditionMatches(cond, d) ==
    CASE cond.kind = "none" -> TRUE
      [] cond.kind = "range" -> RangeIsMatch(cond, d)
      [] cond.kind = "regex" -> RegexIsMatch(cond, d)

-----------------------------------------------------------------------------
(* _pattern_escape_invert, lines 58-66, on a pattern as the sequence of its
   characters *)

(* str.split(sep) for a separator that is not empty *)
RECURSIVE StrSplit(_, _)
StrSplit(text, sep) ==
    IF Find(text, sep) < 0 THEN <<text>>
    ELSE <<Slice(text, 0, Find(text, sep))>>
             \o StrSplit(SliceFrom(text, Find(text, sep) + Len(sep)), sep)

(* str.replace(char, new) for the one character char *)
RECURSIVE StrReplace(_, _, _)
StrReplace(text, char, new) ==
    IF text = <<>> THEN <<>>
    ELSE (IF Head(text) = char THEN new ELSE <<Head(text)>>)
             \o StrReplace(Tail(text), char, new)

(* sep.join(parts) for a list that is not empty *)
RECURSIVE StrJoin(_, _)
StrJoin(parts, sep) ==
    IF Len(parts) = 1 THEN parts[1]
    ELSE parts[1] \o sep \o StrJoin(Tail(parts), sep)

(* lines 61-65, the body of the loop for one character: pattern_split being
   pattern.split('\\' + char), each piece has its char escaped and the pieces
   are joined with char *)
InvertSplit(pattern_split, char) ==
    StrJoin([k \in 1..Len(pattern_split) |->
                StrReplace(pattern_split[k], char, <<"\\", char>>)],
            <<char>>)

\* the loop leaving the pattern as it is
PatternEscapeInvert_Identity(pattern, chars) == pattern

(* _pattern_escape_invert *)
RECURSIVE PatternEscapeInvert(_, _)
PatternEscapeInvert(pattern, chars) ==
    IF chars = <<>> THEN pattern
    ELSE PatternEscapeInvert(InvertSplit(StrSplit(pattern, <<"\\", Head(chars)>>),
                                         Head(chars)),
                             Tail(chars))

(* the chars that RegexSedCondition.__init__ (line 554) and
   SubstituteCommand.__init__ (line 592) hand to _pattern_escape_invert *)
InvertedChars == <<"+", "?", "|", "{", "}", "(", ")">>

-----------------------------------------------------------------------------
(* Commands.  Every command is a record of the same shape; the fields a
   command does not have keep the values of Command. *)

Command(cmd, cond) ==
    [cmd |-> cmd, cond |-> cond, label |-> "", text |-> <<>>,
     find |-> Pattern(FALSE, <<>>), replace |-> <<>>, global_replace |-> FALSE,
     nth_match |-> None, print_matched_lines |-> FALSE, has_matched_file |-> FALSE,
     branch_name |-> "", exit_code |-> 0, script_char |-> "", file_path |-> ""]

\* lines 651-662 without the default of the first match only
EffectiveNth_NoDefault(c) ==
    [return |-> /\ c.find.anchored
                /\ ~IsNone(c.nth_match)
                /\ \/ (Val(c.nth_match) = 0 /\ ~c.global_replace)
                   \/ Val(c.nth_match) > 1,
     nth_match |-> IF c.find.anchored /\ ~IsNone(c.nth_match) THEN Some(1)
                   ELSE c.nth_match]

(* SubstituteCommand._handle, lines 651-662: [return, nth_match] *)
EffectiveNth(c) ==
    LET only_first_match == c.find.anchored
        ret == /\ only_first_match
               /\ ~IsNone(c.nth_match)
               /\ \/ (Val(c.nth_match) = 0 /\ ~c.global_replace)
                  \/ Val(c.nth_match) > 1
        nth1 == IF only_first_match /\ ~IsNone(c.nth_match) THEN Some(1)
                ELSE c.nth_match
    IN  [return |-> ret,
         nth_match |-> IF IsNone(nth1) /\ ~c.global_replace THEN Some(1) ELSE nth1]

(* line 673: is this match substituted? *)
ApplyMatch(nth_match, match_idx) ==
    IsNone(nth_match) \/ (match_idx + 1) >= Val(nth_match)

\* line 687 never leaving the loop
AllDone_Never(nth_match, global_replace) == FALSE

(* line 687: the loop ends after this substitution *)
AllDone(nth_match, global_replace) == ~IsNone(nth_match) /\ ~global_replace

\* lines 690-696 without the advance after a match of no byte
NextOffset_NoAdvance(applied, start, end, new_dat) ==
    IF applied THEN start + Len(new_dat) ELSE end

(* lines 690-696: where the next search starts *)
NextOffset(applied, start, end, new_dat) ==
    LET offset == IF applied THEN start + Len(new_dat) ELSE end
    IN  IF start = end THEN offset + 1 ELSE offset

(* the while loop of SubstituteCommand._handle.  st holds the locals and the
   pattern space: [ps, match_idx, offset, next_chunk, matched, count, windows]
   where count is the number of substitutions made and windows the length of
   next_chunk at each turn of the loop taken so far.  The turns are counted
   up to MaxIterations, which no run reaches (C30). *)
RECURSIVE SubstituteLoop(_, _, _)
SubstituteLoop(c, nth_match, st) ==
    LET match == ReSearch(c.find, st.next_chunk) IN
    IF ~match.found \/ Len(st.windows) >= MaxIterations THEN st
    ELSE LET start == match.start + st.offset
             end == match.end + st.offset
             applied == ApplyMatch(nth_match, st.match_idx)
             new_dat == ReSub(c.find, c.replace,
                              Slice(st.next_chunk, match.start, match.end))
             ps == IF applied
                   THEN Slice(st.ps, 0, start) \o new_dat \o SliceFrom(st.ps, end)
                   ELSE st.ps
             offset == NextOffset(applied, start, end, new_dat)
             st1 == [st EXCEPT !.ps = ps, !.matched = @ \/ applied,
                               !.count = IF applied THEN @ + 1 ELSE @,
                               !.windows = Append(@, Len(st.next_chunk))]
         IN  IF applied /\ AllDone(nth_match, c.global_replace) THEN st1
             ELSE IF st.next_chunk = <<>> THEN [st1 EXCEPT !.offset = offset]
             ELSE SubstituteLoop(c, nth_match,
                      [st1 EXCEPT !.offset = offset,
                                  !.next_chunk = SliceFrom(ps, offset),
                                  !.match_idx = @ + 1])

(* SubstituteCommand._match_made *)
MatchMade(c, d) ==
    LET d1 == IF c.print_matched_lines THEN PrintBytes(d, Val(d.pattern_space)) ELSE d
    IN  IF c.has_matched_file
        THEN [d1 EXCEPT !.matched_file = @ \o Val(d1.pattern_space)]
        ELSE d1

(* the locals of SubstituteCommand._handle when it returns *)
SubstituteRun(c, d) ==
    LET st0 == [ps |-> Val(d.pattern_space), match_idx |-> 0, offset |-> 0,
                next_chunk |-> Val(d.pattern_space), matched |-> FALSE, count |-> 0,
                windows |-> <<>>]
    IN  IF EffectiveNth(c).return THEN st0
        ELSE SubstituteLoop(c, EffectiveNth(c).nth_match, st0)

\* _handle calling _match_made whether or not a match was substituted
SubstituteHandle_AlwaysMade(c, d) ==
    LET st == SubstituteRun(c, d)
        d1 == IF st.count > 0 THEN SetPatternSpace(d, st.ps) ELSE d
    IN  MatchMade(c, d1)

(* SubstituteCommand._handle *)
SubstituteHandle(c, d) ==
    LET st == SubstituteRun(c, d)
        d1 == IF st.count > 0 THEN SetPatternSpace(d, st.ps) ELSE d
    IN  IF st.matched THEN MatchMade(c, d1) ELSE d1

(* AppendCommand._handle *)
AppendHandle(c, d, nl) == AppendData(d, c.text, TRUE, nl)

(* InsertCommand._handle *)
InsertHandle(c, d, nl) == InsertData(d, c.text, TRUE, nl)

\* _handle jumping to the end with the pattern space as it is
DeleteHandle_KeepPattern(c, d) == [d EXCEPT !.jump_to = JumpIndex(-1)]

(* DeleteCommand._handle *)
DeleteHandle(c, d) == [SetPatternSpace(d, <<>>) EXCEPT !.jump_to = JumpIndex(-1)]

(* PrintCommand._handle *)
PrintHandle(c, d) == PrintBytes(d, Val(d.pattern_space))

(* ReplaceCommand._handle *)
ReplaceHandle(c, d, nl) ==
    LET add_newline == EndsWith(Val(d.pattern_space), nl)
        d1 == SetPatternSpace(d, c.replace)
    IN  IF add_newline THEN SetPatternSpace(d1, Val(d1.pattern_space) \o nl) ELSE d1

(* DeleteToNewlineCommand._handle *)
DeleteToNewlineHandle(c, d, nl) ==
    LET pos == Find(Val(d.pattern_space), nl) IN
    IF pos >= 0
    THEN [SetPatternSpace(d, SliceFrom(Val(d.pattern_space), pos + 1))
            EXCEPT !.jump_to = JumpIndex(0)]
    ELSE [SetPatternSpace(d, <<>>) EXCEPT !.jump_to = JumpIndex(-1)]

(* AppendNextCommand._handle *)
AppendNextHandle(c, d, nl) == AppendNextLineData(d, in_kind, nl)

(* NextCommand._handle *)
NextHandle(c, d, nl) == NextLineData(d, in_kind, nl).d

(* AppendLineFromFile.  The object at the place k of the program is
   line_files[k] once its _handle has run, and is as __init__ makes it before:
   file_read, file_iter (is not None), and of the AutoInputFileIterable the
   bytes not read yet and eof (_fp is None).  History: content, the bytes the
   file held when it was opened, and firings, the calls of _handle so far. *)
NewLineFile ==
    [file_read |-> FALSE, file_iter |-> FALSE, data |-> <<>>, eof |-> TRUE,
     content |-> <<>>, firings |-> 0]

LineFile(k) == IF k \in DOMAIN line_files THEN line_files[k] ELSE NewLineFile

(* lines 1309-1316: the file is opened at the first call; open() raises
   OSError when there is no such file *)
LineFileOpened(c, lf) ==
    IF ~lf.file_read /\ ~lf.file_iter
    THEN IF IsNone(fs[c.file_path])
         THEN [lf EXCEPT !.file_read = TRUE, !.file_iter = FALSE]
         ELSE [lf EXCEPT !.file_iter = TRUE, !.data = Val(fs[c.file_path]),
                         !.eof = FALSE, !.content = Val(fs[c.file_path])]
    ELSE lf

(* lines 1318-1320: next(self.file_iter) *)
LineFileNext(lf, nl) == AutoInputFileNext(lf.data, lf.eof, nl, line_byte_limit)

(* lines 1318-1323: the object after the call, r being what next() gave *)
LineFileRead(lf, r) ==
    IF ~lf.file_iter THEN [lf EXCEPT !.firings = @ + 1]
    ELSE IF r.stop
    THEN [lf EXCEPT !.file_read = TRUE, !.file_iter = FALSE, !.data = r.rest,
                    !.eof = TRUE, !.firings = @ + 1]
    ELSE [lf EXCEPT !.data = r.rest, !.eof = r.eof, !.firings = @ + 1]

(* lines 1318-1325: the working data after the call *)
LineFileAppend(d, lf, r, nl) ==
    IF lf.file_iter /\ ~r.stop THEN AppendData(d, r.b, FALSE, nl) ELSE d

(* AppendLineFromFile._handle, on the command at the place i + 1: the working
   data it leaves and the objects it leaves *)
AppendLineFromFileHandle(c, d, nl) ==
    LineFileAppend(d, LineFileOpened(c, LineFile(i + 1)),
                   LineFileNext(LineFileOpened(c, LineFile(i + 1)), nl), nl)

LineFilesAfter(c, nl) ==
    ((i + 1) :> LineFileRead(LineFileOpened(c, LineFile(i + 1)),
                             LineFileNext(LineFileOpened(c, LineFile(i + 1)), nl)))
        @@ line_files

(* WritePatternCommand._handle *)
WritePatternHandle(c, d) == [d EXCEPT !.w_file = @ \o Val(d.pattern_space)]

(* WritePatternToNewlineCommand._handle *)
WritePatternToNewlineHandle(c, d, nl) ==
    LET loc == Find(Val(d.pattern_space), nl) IN
    IF loc < 0 THEN [d EXCEPT !.w_file = @ \o Val(d.pattern_space)]
    ELSE [d EXCEPT !.w_file = @ \o Slice(Val(d.pattern_space), 0, loc + 1)]

(* UnambiguousPrint works on the values of the bytes: where it runs, a byte
   is its value 0..255.  '{:o}'.format(b): the octal digits of b, the first
   one not 0 unless b is 0 *)
RECURSIVE OctalFormat(_)
OctalFormat(b) ==
    IF b < 8 THEN <<48 + b>> ELSE OctalFormat(b \div 8) \o <<48 + (b % 8)>>

(* UnambiguousPrint.CONVERSION_DICT: \a \b \t \v \f \r and the backslash *)
CONVERSION_DICT ==
    (7 :> <<92, 97>>) @@ (8 :> <<92, 98>>) @@ (9 :> <<92, 116>>) @@
    (11 :> <<92, 118>>) @@ (12 :> <<92, 102>>) @@ (13 :> <<92, 114>>) @@
    (92 :> <<92, 92>>)

(* ord(newline_char), of a separator of one byte *)
Ord(newline_char) == newline_char[1]

(* UnambiguousPrint._convert_byte *)
ConvertByte(b, newline_char) ==
    IF b = Ord(newline_char) THEN <<36, b>>
    ELSE IF b \in DOMAIN CONVERSION_DICT THEN CONVERSION_DICT[b]
    ELSE IF b < 32 \/ b > 126 THEN <<92>> \o OctalFormat(b)
    ELSE <<b>>

(* UnambiguousPrint._handle *)
UnambiguousPrintHandle(c, d, nl) ==
    LET ps == Val(d.pattern_space)
        the_bytes == Concat([k \in 1..Len(ps) |-> ConvertByte(ps[k], nl)])
    IN  PrintBytes(d, IF ~EndsWith(ps, nl) THEN the_bytes \o <<36>> ELSE the_bytes)

(* SetHoldspace._handle *)
SetHoldspaceHandle(c, d) == [d EXCEPT !.holdspace = Val(d.pattern_space)]

(* AppendHoldspace._handle *)
AppendHoldspaceHandle(c, d, nl) ==
    LET hold == IF ~EndsWith(d.holdspace, nl) THEN d.holdspace \o nl
                ELSE d.holdspace
    IN  [d EXCEPT !.holdspace = hold \o Val(d.pattern_space)]

(* SetFromHoldspace._handle *)
SetFromHoldspaceHandle(c, d, nl) ==
    SetPatternSpace(d, IF ~EndsWith(d.holdspace, nl) THEN d.holdspace \o nl
                       ELSE d.holdspace)

(* AppendFromHoldspace._handle *)
AppendFromHoldspaceHandle(c, d, nl) == AppendData(d, d.holdspace, TRUE, nl)

\* _handle never asking for a jump
BranchHandle_Never(c, d) == d

(* BranchCommand._handle *)
BranchHandle(c, d) ==
    IF c.branch_name # "" THEN [d EXCEPT !.jump_to = JumpLabel(c.branch_name)] ELSE d

\* _handle jumping whatever the flag holds
TestBranchHandle_Always(c, d) ==
    IF c.branch_name # "" THEN [d EXCEPT !.jump_to = JumpLabel(c.branch_name)] ELSE d

(* TestBranchCommand._handle *)
TestBranchHandle(c, d) ==
    IF d.pattern_modified /\ c.branch_name # ""
    THEN [d EXCEPT !.jump_to = JumpLabel(c.branch_name)] ELSE d

(* TestBranchNotCommand._handle *)
TestBranchNotHandle(c, d) ==
    IF ~d.pattern_modified /\ c.branch_name # ""
    THEN [d EXCEPT !.jump_to = JumpLabel(c.branch_name)] ELSE d

(* QuitCommand._handle, up to the raise *)
QuitHandle(c, d, nl) == FlushAllData(d, nl)

\* _handle flushing every buffer as q does
QuitWithoutPrintHandle_FlushAll(c, d, nl) == FlushAllData(d, nl)

(* QuitWithoutPrintCommand._handle, up to the raise *)
QuitWithoutPrintHandle(c, d, nl) == FlushInsertData(d)

(* str.encode, on the names a file or standard input bears in the runs
   where F acts: the values of their bytes *)
Encode(name) ==
    CASE name = "-" -> <<45>>
      [] name = "f" -> <<102>>
      [] name = "g" -> <<103>>

(* FileCommand._handle; dat.file_name is the name of the source being read *)
FileHandle(c, d, nl) == PrintBytes(d, Encode(files[file_idx]) \o nl)

(* Label has the _handle of SedCommand: pass *)
LabelHandle(c, d) == d

(* SedCommand.handle *)
Handle(c, d, nl) ==
    IF ~ConditionMatches(c.cond, d) THEN d
    ELSE CASE c.cmd = "s" -> SubstituteHandle(c, d)
           [] c.cmd = "a" -> AppendHandle(c, d, nl)
           [] c.cmd = "i" -> InsertHandle(c, d, nl)
           [] c.cmd = "d" -> DeleteHandle(c, d)
           [] c.cmd = "p" -> PrintHandle(c, d)
           [] c.cmd = "c" -> ReplaceHandle(c, d, nl)
           [] c.cmd = "h" -> SetHoldspaceHandle(c, d)
           [] c.cmd = "G" -> AppendFromHoldspaceHandle(c, d, nl)
           [] c.cmd = "b" -> BranchHandle(c, d)
           [] c.cmd = "t" -> TestBranchHandle(c, d)
           [] c.cmd = "T" -> TestBranchNotHandle(c, d)
           [] c.cmd = "q" -> QuitHandle(c, d, nl)
           [] c.cmd = "Q" -> QuitWithoutPrintHandle(c, d, nl)
           [] c.cmd = ":" -> LabelHandle(c, d)
           [] c.cmd = "D" -> DeleteToNewlineHandle(c, d, nl)
           [] c.cmd = "N" -> AppendNextHandle(c, d, nl)
           [] c.cmd = "n" -> NextHandle(c, d, nl)
           [] c.cmd = "R" -> AppendLineFromFileHandle(c, d, nl)
           [] c.cmd = "w" -> WritePatternHandle(c, d)
           [] c.cmd = "W" -> WritePatternToNewlineHandle(c, d, nl)
           [] c.cmd = "l" -> UnambiguousPrintHandle(c, d, nl)
           [] c.cmd = "H" -> AppendHoldspaceHandle(c, d, nl)
           [] c.cmd = "g" -> SetFromHoldspaceHandle(c, d, nl)
           [] c.cmd = "F" -> FileHandle(c, d, nl)

\* handle raising no SedQuitException
Quits_Never(c, d) == FALSE

(* the SedQuitException that handle raises *)
Quits(c, d) == c.cmd \in {"q", "Q"} /\ ConditionMatches(c.cond, d)

-----------------------------------------------------------------------------
(* The scripts.  A script is the sequence of its characters.  The parser
   below knows the commands of one character, w, W, s and the comment; the
   scripts drawn hold no other command of SED_COMMANDS. *)

(* line 43, the characters of it that a script of the model can hold *)
WHITESPACE_CHARS == {" ", "\t", "\r", "\n", "\f"}

NUMBER_CHARS == {"0", "1", "2", "3", "4", "5", "6", "7", "8", "9"}

SOMETIMES_END_CMD_CHAR == ";"

ALWAYS_END_CMD_CHAR == "\n"

(* StringParser.__init__ *)
StringParser(s) == [s |-> s, pos |-> 0, mark |-> 0]

(* StringParser.__len__ *)
Length(sp) == IF Len(sp.s) - sp.pos < 0 THEN 0 ELSE Len(sp.s) - sp.pos

(* StringParser.__getitem__(0) and (1) when the index is within the string *)
CurrentChar(sp) == sp.s[sp.pos + 1]

(* StringParser.advance *)
Advance(sp, inc) == IF inc > 0 THEN [sp EXCEPT !.pos = @ + inc] ELSE sp

(* StringParser.advance_end *)
AdvanceEnd(sp) == [sp EXCEPT !.pos = Len(sp.s)]

(* StringParser.mark *)
Mark(sp) == [sp EXCEPT !.mark = sp.pos]

(* StringParser.str_from_mark *)
StrFromMark(sp) == Slice(sp.s, sp.mark, sp.pos)

(* StringParser.advance_past: [found, sp] *)
AdvancePast(sp, characters) ==
    LET at == {k \in sp.pos..(Len(sp.s) - 1) : sp.s[k + 1] \notin characters}
    IN  IF at # {} THEN [found |-> TRUE, sp |-> [sp EXCEPT !.pos = SetMin(at)]]
        ELSE [found |-> FALSE, sp |-> [sp EXCEPT !.pos = Len(sp.s)]]

(* StringParser.advance_until: [found, sp] *)
AdvanceUntil(sp, characters) ==
    LET at == {k \in sp.pos..(Len(sp.s) - 1) : sp.s[k + 1] \in characters}
    IN  IF at # {} THEN [found |-> TRUE, sp |-> [sp EXCEPT !.pos = SetMin(at)]]
        ELSE [found |-> FALSE, sp |-> [sp EXCEPT !.pos = Len(sp.s)]]

(* int() of a string of digits *)
DigitValue(c) ==
    CASE c = "0" -> 0 [] c = "1" -> 1 [] c = "2" -> 2 [] c = "3" -> 3 [] c = "4" -> 4
      [] c = "5" -> 5 [] c = "6" -> 6 [] c = "7" -> 7 [] c = "8" -> 8 [] c = "9" -> 9

RECURSIVE ParseInt(_)
ParseInt(digits) ==
    IF digits = <<>> THEN 0
    ELSE 10 * ParseInt(SubSeq(digits, 1, Len(digits) - 1)) + DigitValue(digits[Len(digits)])

(* what a from_string gives: the exception it raises ("" when none), the
   object it returns and the parser as it leaves it *)
Parsed(raise, value, sp) == [raise |-> raise, value |-> value, sp |-> sp]

(* RangeSedCondition.from_string, from the end to the start: the second
   number read *)
RangeSecondNum(first_num, sp3) ==
    Parsed("", RangeSedCondition(first_num, Some(ParseInt(StrFromMark(sp3)))), sp3)

(* lines 537-544: after the comma *)
RangeAfterComma(first_num, sp2) ==
    IF Length(sp2) > 0 /\ CurrentChar(sp2) \in NUMBER_CHARS
    THEN RangeSecondNum(first_num, AdvancePast(Mark(sp2), NUMBER_CHARS).sp)
    ELSE Parsed("unexpected `,'", NoCondition, sp2)

(* lines 535-546: after the first number *)
RangeFirstNum(sp1) ==
    IF Length(sp1) > 0 /\ CurrentChar(sp1) = ","
    THEN RangeAfterComma(ParseInt(StrFromMark(sp1)), Advance(sp1, 1))
    ELSE Parsed("", RangeSedCondition(ParseInt(StrFromMark(sp1)), None), sp1)

(* lines 531-548: after advance_past() *)
RangeAt(past) ==
    IF past.found /\ CurrentChar(past.sp) \in NUMBER_CHARS
    THEN RangeFirstNum(AdvancePast(Mark(past.sp), NUMBER_CHARS).sp)
    ELSE Parsed("Not a range sequence", NoCondition, past.sp)

(* RangeSedCondition.from_string *)
RangeFromString(sp0) == RangeAt(AdvancePast(sp0, WHITESPACE_CHARS))

(* lines 565-570: after advance_until('/') *)
RegexUntil(until) ==
    IF until.found
    THEN Parsed("", RegexSedCondition(PatternEscapeInvert(StrFromMark(until.sp),
                                                          InvertedChars)),
                Advance(until.sp, 1))
    ELSE Parsed("unterminated address regex", NoCondition, until.sp)

(* lines 562-572: after advance_past() *)
RegexAt(past) ==
    IF past.found /\ CurrentChar(past.sp) = "/"
    THEN RegexUntil(AdvanceUntil(Mark(Advance(past.sp, 1)), {"/"}))
    ELSE Parsed("Not a regex sequence", NoCondition, past.sp)

(* RegexSedCondition.from_string, for a pattern of literal characters *)
RegexFromString(sp0) == RegexAt(AdvancePast(sp0, WHITESPACE_CHARS))

(* the classes of SED_COMMANDS whose from_string is: advance(1),
   advance_past(), return an object of the class *)
SingleCharCommands == {"d", "D", "h", "H", "g", "G", "F", "l", "p", "N", "n"}

(* the keys of SED_COMMANDS that the parser below knows *)
SED_COMMANDS == SingleCharCommands \cup {"w", "W", "#", "s"}

(* the exception that is no SedParsingException: the IndexError of
   StringParser.__getitem__ (line 146) past the end of the string *)
IndexError == "IndexError"

(* SubstituteCommand.__init__ (lines 590-612) for a find pattern of literal
   characters after an optional ^ *)
SubstituteInit(cond, find_pattern, replace_pattern) ==
    [Command("s", cond) EXCEPT
        !.find = IF StartsWith(PatternEscapeInvert(find_pattern, InvertedChars), <<"^">>)
                 THEN Pattern(TRUE, Tail(PatternEscapeInvert(find_pattern, InvertedChars)))
                 ELSE Pattern(FALSE, PatternEscapeInvert(find_pattern, InvertedChars)),
        !.replace = replace_pattern,
        !.script_char = "s"]

(* SubstituteCommand.from_string, from the end to the start.  Lines 727-749,
   the loop of the flags, for g, p and the characters it ignores; past is
   what advance_past() gave *)
RECURSIVE SubstituteFlags(_, _)
SubstituteFlags(command, past) ==
    IF past.found /\ CurrentChar(past.sp) # SOMETIMES_END_CMD_CHAR
    THEN SubstituteFlags(
             CASE CurrentChar(past.sp) = "g" -> [command EXCEPT !.global_replace = TRUE]
               [] CurrentChar(past.sp) = "p" -> [command EXCEPT !.print_matched_lines = TRUE]
               [] OTHER -> command,
             AdvancePast(Advance(past.sp, 1), WHITESPACE_CHARS))
    ELSE Parsed("", Some(command), past.sp)

(* lines 721-726: after the second advance_until(splitter) *)
SubstituteReplace(cond, find_pattern, until) ==
    IF ~until.found THEN Parsed("unterminated `s' command", None, until.sp)
    ELSE SubstituteFlags(SubstituteInit(cond, find_pattern, StrFromMark(until.sp)),
                         AdvancePast(Advance(until.sp, 1), WHITESPACE_CHARS))

(* lines 717-721: after the first advance_until(splitter) *)
SubstituteFind(cond, splitter, until) ==
    IF ~until.found THEN Parsed("unterminated `s' command", None, until.sp)
    ELSE SubstituteReplace(cond, StrFromMark(until.sp),
                           AdvanceUntil(Mark(Advance(until.sp, 1)), {splitter}))

(* SubstituteCommand.from_string, the parser standing on the s: splitter =
   s[1] (line 714) raises IndexError when the s ends the string *)
SubstituteFromString(cond, sp0) ==
    IF sp0.pos + 1 >= Len(sp0.s) THEN Parsed(IndexError, None, sp0)
    ELSE SubstituteFind(cond, sp0.s[sp0.pos + 2],
                        AdvanceUntil(Mark(Advance(sp0, 2)), {sp0.s[sp0.pos + 2]}))

(* command_type.from_string(condition, substr_line) for the class that
   SED_COMMANDS gives for char, the parser standing on char: the command is
   None for a comment; script_char keeps the character of the script.
   WritePatternCommand.from_string and WritePatternToNewlineCommand.from_string
   (lines 1438-1443, 1468-1474) both return a WritePatternCommand for the rest
   of the line as the file. *)
FromString(char, cond, sp0) ==
    IF char = "#" THEN Parsed("", None, AdvanceEnd(sp0))
    ELSE IF char = "s" THEN SubstituteFromString(cond, sp0)
    ELSE IF char \in {"w", "W"}
    THEN Parsed("", Some([Command("w", cond) EXCEPT !.script_char = char]),
                AdvanceEnd(Mark(AdvancePast(Advance(sp0, 1), WHITESPACE_CHARS).sp)))
    ELSE Parsed("", Some([Command(char, cond) EXCEPT !.script_char = char]),
                AdvancePast(Advance(sp0, 1), WHITESPACE_CHARS).sp)

(* how the parsing of a script ends: kind is "ok", "error" (a
   SedParsingException at the position pos of the line, 0-based), "IndexError"
   or "loop" (the while loop of a line never ends) *)
ParseEnd(kind, cmds, pos, message) ==
    [kind |-> kind, commands |-> cmds, pos |-> pos, message |-> message]

(* the while loop of Sed._parse_script_lines on one line, cmds being the
   commands appended so far; its body follows, from the end to the start *)
RECURSIVE ParseLine(_, _)

\* the same taking no account of what follows the command on its line
ParseAfterCommand_SkipRest(value, after, cmds) ==
    ParseLine(AdvanceEnd(after.sp),
              IF ~IsNone(value) THEN Append(cmds, Val(value)) ELSE cmds)

(* lines 1617-1623: after the from_string of the command and advance_past() *)
ParseAfterCommand(value, after, cmds) ==
    IF after.found /\ CurrentChar(after.sp) # SOMETIMES_END_CMD_CHAR
    THEN ParseEnd("error", cmds, after.sp.pos, "extra characters after command")
    ELSE ParseLine(AdvancePast(after.sp,
                       WHITESPACE_CHARS \cup {SOMETIMES_END_CMD_CHAR}).sp,
                   IF ~IsNone(value) THEN Append(cmds, Val(value)) ELSE cmds)

(* line 1615: command = command_type.from_string(condition, substr_line) *)
ParseFromString(command, cmds) ==
    IF command.raise = IndexError
    THEN ParseEnd("IndexError", cmds, command.sp.pos, "string index out of range")
    ELSE IF command.raise # ""
    THEN ParseEnd("error", cmds, command.sp.pos, command.raise)
    ELSE ParseAfterCommand(command.value, AdvancePast(command.sp, WHITESPACE_CHARS),
                           cmds)

(* lines 1609-1626: after the condition and advance_past() *)
ParseCommand(cond, past, cmds) ==
    IF past.found /\ CurrentChar(past.sp) # SOMETIMES_END_CMD_CHAR
    THEN IF CurrentChar(past.sp) \notin SED_COMMANDS
         THEN ParseEnd("error", cmds, past.sp.pos,
                       "Invalid command: " \o CurrentChar(past.sp))
         ELSE ParseFromString(FromString(CurrentChar(past.sp), cond, past.sp), cmds)
    ELSE IF cond.kind # "none"
    THEN ParseEnd("error", cmds, past.sp.pos, "missing command")
    ELSE ParseEnd("loop", cmds, past.sp.pos, "")

(* lines 1600-1609: the condition read, or the exception of its from_string *)
ParseCondition(condition, cmds) ==
    IF condition.raise # ""
    THEN ParseEnd("error", cmds, condition.sp.pos, condition.raise)
    ELSE ParseCommand(condition.value,
                      AdvancePast(condition.sp, WHITESPACE_CHARS), cmds)

(* lines 1598-1607: c = substr_line[0], after advance_past() *)
ParseExpression(sp1, cmds) ==
    IF sp1.pos >= Len(sp1.s)
    THEN ParseEnd("IndexError", cmds, sp1.pos, "string index out of range")
    ELSE ParseCondition(IF CurrentChar(sp1) \in NUMBER_CHARS THEN RangeFromString(sp1)
                        ELSE IF CurrentChar(sp1) = "/" THEN RegexFromString(sp1)
                        ELSE Parsed("", NoCondition, sp1),
                        cmds)

ParseLine(sp0, cmds) ==
    IF ~(Length(sp0) > 0) THEN ParseEnd("ok", cmds, sp0.pos, "")
    ELSE ParseExpression(AdvancePast(sp0, WHITESPACE_CHARS).sp, cmds)

(* Sed._parse_script_lines from the line of index k (0-based) on: the end of
   the parsing, with the number i + 1 of the line in which it ended *)
RECURSIVE ParseScriptLines(_, _, _)

\* the same numbering the lines from 0
ParseNextLine_FromZero(script_lines, k, r) ==
    IF r.kind = "ok" THEN ParseScriptLines(script_lines, k + 1, r.commands)
    ELSE r @@ [expression |-> k]

(* after the while loop of the line of index k *)
ParseNextLine(script_lines, k, r) ==
    IF r.kind = "ok" THEN ParseScriptLines(script_lines, k + 1, r.commands)
    ELSE r @@ [expression |-> k + 1]

ParseScriptLines(script_lines, k, cmds) ==
    IF k >= Len(script_lines) THEN ParseEnd("ok", cmds, 0, "") @@ [expression |-> 0]
    ELSE ParseNextLine(script_lines, k,
                       ParseLine(StringParser(script_lines[k + 1]), cmds))

(* script.split(ALWAYS_END_CMD_CHAR) *)
RECURSIVE Split(_, _)
Split(text, sep) ==
    IF Find(text, <<sep>>) < 0 THEN <<text>>
    ELSE <<Slice(text, 0, Find(text, <<sep>>))>>
             \o Split(SliceFrom(text, Find(text, <<sep>>) + 1), sep)

(* lines 1577-1582: the backslashes that end the line *)
RECURSIVE TrailingSlashes(_)
TrailingSlashes(line) ==
    IF line # <<>> /\ line[Len(line)] = "\\"
    THEN 1 + TrailingSlashes(SubSeq(line, 1, Len(line) - 1)) ELSE 0

(* lines 1573-1586: from the line before the last down to the first, a line
   that ends with an odd number of backslashes loses the last one and takes
   the next line *)
RECURSIVE Glue(_, _)
Glue(script_lines, k) ==
    IF k < 0 THEN script_lines
    ELSE IF TrailingSlashes(script_lines[k + 1]) % 2 = 1
    THEN Glue(SubSeq(script_lines, 1, k)
                  \o <<SubSeq(script_lines[k + 1], 1, Len(script_lines[k + 1]) - 1)
                           \o script_lines[k + 2]>>
                  \o SubSeq(script_lines, k + 3, Len(script_lines)),
              k - 1)
    ELSE Glue(script_lines, k - 1)

(* lines 1573-1586 on the lines of the split *)
GlueAll(script_lines) == Glue(script_lines, Len(script_lines) - 2)

(* the lines that Sed.add_script hands to _parse_script_lines *)
ScriptLines(script_text) == GlueAll(Split(script_text, ALWAYS_END_CMD_CHAR))

(* Sed.add_script *)
AddScriptEnd(script_text) == ParseScriptLines(ScriptLines(script_text), 0, <<>>)

-----------------------------------------------------------------------------
(* Sed.execute *)

\* the search for the label keeping the last command that bears it
LabelIndex_Last(cmds, label) ==
    IF \E j \in 1..Len(cmds) : cmds[j].label = label
    THEN (CHOOSE j \in 1..Len(cmds) :
             /\ cmds[j].label = label
             /\ \A k \in 1..Len(cmds) : cmds[k].label = label => k <= j) - 1
    ELSE -1

(* the index of the first command bearing the label, -1 when there is none *)
LabelIndex(cmds, label) ==
    IF \E j \in 1..Len(cmds) : cmds[j].label = label
    THEN SetMin({j \in 1..Len(cmds) : cmds[j].label = label}) - 1
    ELSE -1

\* lines 1679-1701 going on with the next command whatever jump_to holds
Dispatch_NoJump(cmds, d, next_i) ==
    [break |-> IsNone(d.pattern_space), raise |-> FALSE, i |-> next_i,
     d |-> [d EXCEPT !.jump_to = NoJump]]

(* lines 1679-1701, after command.handle: [break, raise, i, d] *)
Dispatch(cmds, d, next_i) ==
    IF IsNone(d.pattern_space)
    THEN [break |-> TRUE, raise |-> FALSE, i |-> next_i, d |-> d]
    ELSE IF d.jump_to.kind = "none"
    THEN [break |-> FALSE, raise |-> FALSE, i |-> next_i, d |-> d]
    ELSE LET target ==
                 IF d.jump_to.kind = "int"
                 THEN IF d.jump_to.index < 0 THEN Len(cmds) ELSE d.jump_to.index
                 ELSE LabelIndex(cmds, d.jump_to.label)
         IN  [break |-> FALSE, raise |-> target < 0, i |-> target,
              d |-> [d EXCEPT !.jump_to = NoJump]]

(* what a command leaves of the program and the input source *)
CommandFrame ==
    UNCHANGED <<commands, files, in_place, in_place_backup_suffix, in_kind,
                newline, line_byte_limit, script, stderr, input, WriterVars>>

(* what a step that handles no command leaves of them *)
Frame == CommandFrame /\ UNCHANGED line_files

(* the label under which StdinIterable stands in `files' *)
StdinLabel == "-"

(* tmp_file is not None *)
TmpFile == in_place /\ in_kind # "stdin"

(* file_name + self.in_place_backup_suffix *)
BackupName(file_name, suffix) == file_name \o suffix

Step(op, index, fired, st) ==
    [op |-> op, index |-> index, fired |-> fired, matched |-> st.matched,
     count |-> st.count, match_idx |-> st.match_idx, windows |-> st.windows,
     ps |-> pattern_space, line_number |-> line_number,
     out_file |-> out_file, matched_file |-> matched_file, w_file |-> w_file,
     in_data |-> in_data,
     insert_space |-> insert_space, append_space |-> append_space]

NoSubstitute == [matched |-> FALSE, count |-> 0, match_idx |-> 0, windows |-> <<>>]

(* the message of the SedParsingException of _parse_script_lines (line 1629),
   which main prints after `sedeuce: ' *)
ErrorAt(expression, char, message) ==
    "Error at expression #" \o ToString(expression) \o ", char " \o ToString(char)
        \o ": " \o message

(* main, lines 1785-1786: print(f'{PACKAGE_NAME}: {ex}', file=sys.stderr) *)
Report(ex) == "sedeuce: " \o ex \o "\n"

(* main, lines 1771-1787, after sed.add_script(args.script) ended as r *)
AddScriptDone(r) ==
    /\ commands' = IF r.kind = "loop" THEN commands ELSE r.commands
    /\ pc' = CASE r.kind = "ok" -> "next_line"
               [] r.kind = "loop" -> "add_script"
               [] OTHER -> "error"
    /\ exit_code' = IF r.kind \in {"error", "IndexError"} THEN Some(1) ELSE exit_code
    /\ stderr' = CASE r.kind = "error" ->
                          Some(Report(ErrorAt(r.expression, r.pos + 1, r.message)))
                   [] r.kind = "IndexError" -> Some(Report(r.message))
                   [] OTHER -> stderr
    /\ last' = IF r.kind = "loop" THEN last
               ELSE Step("add_script", 0, r.kind = "ok", NoSubstitute)

(* main, lines 1771-1787, up to sed.execute(): add_script gives the commands,
   or raises and main prints the exception and returns 1, or never returns *)
AddScript ==
    /\ pc = "add_script"
    /\ AddScriptDone(AddScriptEnd(script))
    /\ UNCHANGED <<DatVars, i, cycle, acted, file_idx, fs, original, files, in_place,
                   in_place_backup_suffix, in_kind, newline, line_byte_limit, input,
                   script, line_files, WriterVars>>

(* `while dat.next_line():' *)
NextLine ==
    /\ pc = "next_line"
    /\ LET r == NextLineData(Dat, in_kind, newline) IN
         /\ SetDat(r.d)
         /\ i' = IF r.ok THEN 0 ELSE i
         /\ pc' = IF ~r.ok THEN "final_flush"
                  ELSE IF 0 < Len(commands) THEN "commands" ELSE "flush"
         /\ last' = Step("next_line", i, r.ok, NoSubstitute)
    /\ cycle' = <<>>
    /\ UNCHANGED <<acted, file_idx, fs, exit_code, original>>
    /\ Frame

\* the same with a SedQuitException that leaves the loops and not execute
RunCommand_QuitBreaks(cmd) ==
    /\ pc = "commands"
    /\ i < Len(commands)
    /\ commands[i + 1].cmd = cmd
    /\ Len(cycle) < MaxCycle
    /\ LET c == commands[i + 1]
           fired == ConditionMatches(c.cond, Dat)
           st == IF fired /\ cmd = "s" THEN SubstituteRun(c, Dat) ELSE NoSubstitute
           handled == Handle(c, Dat, newline)
           r == Dispatch(commands, handled, i + 1)
       IN  /\ SetDat(IF Quits(c, Dat) THEN handled ELSE r.d)
           /\ i' = IF Quits(c, Dat) THEN i + 1 ELSE r.i
           /\ pc' = IF Quits(c, Dat) THEN "final_flush"
                    ELSE IF r.raise THEN "error"
                    ELSE IF r.break \/ r.i >= Len(commands) THEN "flush"
                    ELSE "commands"
           /\ exit_code' = IF Quits(c, Dat) THEN Some(c.exit_code) ELSE exit_code
           /\ last' = Step(cmd, i, fired, st)
           /\ cycle' = Append(cycle, [index |-> i, fired |-> fired])
           /\ acted' = (acted \/ (fired /\ (cmd = "s" => st.matched)))
           /\ line_files' = IF fired /\ cmd = "R" THEN LineFilesAfter(c, newline)
                            ELSE line_files
    /\ UNCHANGED <<file_idx, fs, original>>
    /\ CommandFrame

(* one turn of `while i < len(self._commands):' on a command of kind cmd *)
RunCommand(cmd) ==
    /\ pc = "commands"
    /\ i < Len(commands)
    /\ commands[i + 1].cmd = cmd
    /\ Len(cycle) < MaxCycle
    /\ LET c == commands[i + 1]
           fired == ConditionMatches(c.cond, Dat)
           st == IF fired /\ cmd = "s" THEN SubstituteRun(c, Dat) ELSE NoSubstitute
           handled == Handle(c, Dat, newline)
           r == Dispatch(commands, handled, i + 1)
       IN  /\ SetDat(IF Quits(c, Dat) THEN handled ELSE r.d)
           /\ i' = IF Quits(c, Dat) THEN i + 1 ELSE r.i
           /\ pc' = IF Quits(c, Dat) THEN "done"
                    ELSE IF r.raise THEN "error"
                    ELSE IF r.break \/ r.i >= Len(commands) THEN "flush"
                    ELSE "commands"
           /\ exit_code' = IF Quits(c, Dat) THEN Some(c.exit_code) ELSE exit_code
           /\ last' = Step(cmd, i, fired, st)
           /\ cycle' = Append(cycle, [index |-> i, fired |-> fired])
           /\ acted' = (acted \/ (fired /\ (cmd = "s" => st.matched)))
           /\ line_files' = IF fired /\ cmd = "R" THEN LineFilesAfter(c, newline)
                            ELSE line_files
    /\ UNCHANGED <<file_idx, fs, original>>
    /\ CommandFrame

SubstituteCommand == RunCommand("s")

AppendCommand == RunCommand("a")

InsertCommand == RunCommand("i")

DeleteCommand == RunCommand("d")

PrintCommand == RunCommand("p")

ReplaceCommand == RunCommand("c")

SetHoldspace == RunCommand("h")

AppendFromHoldspace == RunCommand("G")

BranchCommand == RunCommand("b")

TestBranchCommand == RunCommand("t")

TestBranchNotCommand == RunCommand("T")

QuitCommand == RunCommand("q")

QuitWithoutPrintCommand == RunCommand("Q")

Label == RunCommand(":")

DeleteToNewlineCommand == RunCommand("D")

AppendNextCommand == RunCommand("N")

NextCommand == RunCommand("n")

AppendLineFromFile == RunCommand("R")

WritePatternCommand == RunCommand("w")

WritePatternToNewlineCommand == RunCommand("W")

UnambiguousPrint == RunCommand("l")

AppendHoldspace == RunCommand("H")

SetFromHoldspace == RunCommand("g")

FileCommand == RunCommand("F")

(* line 1702: dat.flush_all_data() at the end of the cycle *)
EndCycle ==
    /\ pc = "flush"
    /\ SetDat(FlushAllData(Dat, newline))
    /\ pc' = "next_line"
    /\ last' = Step("flush", i, TRUE, NoSubstitute)
    /\ UNCHANGED <<i, cycle, acted, file_idx, fs, exit_code, original>>
    /\ Frame

(* the end of the body of `for file in files': the next file, or `return 0' *)
AfterFile ==
    IF file_idx < Len(files)
    THEN pc' = "set_in_file" /\ exit_code' = exit_code
    ELSE pc' = "done" /\ exit_code' = Some(0)

\* line 1707 committing whether or not the file was modified
Commits_Always(d) == TmpFile

(* line 1707: `if dat.file_modified and tmp_file:' *)
Commits(d) == d.file_modified /\ TmpFile

(* line 1705: the final flush of a file; then its commit, the next file or
   `return 0' *)
FinalFlush ==
    /\ pc = "final_flush"
    /\ LET d == FlushAllData(Dat, newline) IN
         /\ SetDat(d)
         /\ IF Commits(d)
            THEN /\ pc' = IF ~IsNone(in_place_backup_suffix) THEN "backup" ELSE "remove"
                 /\ exit_code' = exit_code
            ELSE AfterFile
    /\ last' = Step("final_flush", i, TRUE, NoSubstitute)
    /\ UNCHANGED <<i, cycle, acted, file_idx, fs, original>>
    /\ Frame

(* lines 1652-1666: `for file in files:' takes the next file, set_in_file
   opens it and out_file becomes a new temporary file or stdout *)
SetInFile ==
    /\ pc = "set_in_file"
    /\ file_idx < Len(files)
    /\ in_kind = "file" => ~IsNone(fs[files[file_idx + 1]])
    /\ file_idx' = file_idx + 1
    /\ SetDat([Dat EXCEPT !.file_modified = FALSE,
                          !.in_file_iter = TRUE,
                          !.in_eof = FALSE,
                          !.in_data = IF in_kind = "file"
                                      THEN Val(fs[files[file_idx + 1]]) ELSE @,
                          !.out_file = IF TmpFile THEN <<>> ELSE @])
    /\ original' = IF in_kind = "file" THEN Val(fs[files[file_idx + 1]]) ELSE original
    /\ pc' = "next_line"
    /\ last' = Step("set_in_file", i, TRUE, NoSubstitute)
    /\ UNCHANGED <<i, cycle, acted, fs, exit_code>>
    /\ Frame

(* the path of the file being processed *)
FileName == files[file_idx]

\* line 1713 copying the temporary file where the backup should be
BackupOf_Temp(path) == Some(out_file)

(* line 1713: what shutil.copy2(file_name, backup_name) copies *)
BackupOf(path) == fs[path]

(* lines 1711-1713: the copy of the original to the backup name *)
Backup ==
    /\ pc = "backup"
    /\ fs' = [fs EXCEPT ![BackupName(FileName, Val(in_place_backup_suffix))] =
                            BackupOf(FileName)]
    /\ pc' = "remove"
    /\ last' = Step("backup", i, TRUE, NoSubstitute)
    /\ UNCHANGED <<DatVars, i, cycle, acted, file_idx, exit_code, original>>
    /\ Frame

(* line 1714: os.remove(file_name) *)
Remove ==
    /\ pc = "remove"
    /\ fs' = [fs EXCEPT ![FileName] = None]
    /\ pc' = "copy"
    /\ last' = Step("remove", i, TRUE, NoSubstitute)
    /\ UNCHANGED <<DatVars, i, cycle, acted, file_idx, exit_code, original>>
    /\ Frame

(* lines 1715-1716: shutil.copy2(tmp_file.name, file_name), the end of the
   file's turn *)
CopyTemp ==
    /\ pc = "copy"
    /\ fs' = [fs EXCEPT ![FileName] = Some(out_file)]
    /\ AfterFile
    /\ last' = Step("copy", i, TRUE, NoSubstitute)
    /\ UNCHANGED <<DatVars, i, cycle, acted, file_idx, original>>
    /\ Frame

-----------------------------------------------------------------------------
(* The runs checked *)

RECURSIVE SeqsUpTo(_, _)
SeqsUpTo(S, n) ==
    IF n = 0 THEN {<<>>}
    ELSE SeqsUpTo(S, n - 1) \cup
         {Append(q, x) : q \in {t \in SeqsUpTo(S, n - 1) : Len(t) = n - 1}, x \in S}

DefaultNewline == <<"\n">>

(* the names of the file system: the paths given to the run and their backup
   names *)
Paths == {"f", "g"}

Suffixes == {".bak"}

Names == Paths \cup {BackupName(path, suffix) : path \in Paths, suffix \in Suffixes}

(* WorkingData.__init__, then set_in_file, for the input data read through a
   source of the kind given, under one of the record separators and one of
   the record limits given; start is where the run stands *)
InitData(kinds, inputs, newlines, limits, start) ==
    /\ in_kind \in kinds
    /\ input \in inputs
    /\ in_data = input
    /\ in_eof = FALSE
    /\ in_file_iter = TRUE
    /\ newline \in newlines
    /\ line_byte_limit \in limits
    /\ w_file = <<>>
    /\ line_number = 0
    /\ pattern_modified = FALSE
    /\ file_modified = FALSE
    /\ insert_space = None
    /\ pattern_space = None
    /\ append_space = None
    /\ jump_to = NoJump
    /\ holdspace = <<>>
    /\ out_file = <<>>
    /\ matched_file = <<>>
    /\ i = 0
    /\ pc = start
    /\ stderr = None
    /\ InitWriters
    /\ last = Step("init", 0, FALSE, NoSubstitute)
    /\ cycle = <<>>
    /\ acted = FALSE
    /\ line_files = <<>>
    /\ files = <<IF in_kind = "stdin" THEN StdinLabel ELSE "f">>
    /\ file_idx = 1
    /\ fs = [n \in Names |-> IF n = "f" /\ in_kind = "file" THEN Some(input) ELSE None]
    /\ in_place = FALSE
    /\ in_place_backup_suffix = None
    /\ exit_code = None
    /\ original = IF in_kind = "file" THEN input ELSE <<>>

(* Sed.execute starting on the program cmds, its commands added through
   add_command *)
InitWorking(kinds, inputs, programs, newlines, limits) ==
    /\ commands \in programs
    /\ script = <<>>
    /\ InitData(kinds, inputs, newlines, limits, "next_line")

(* main starting on a script that is not empty *)
InitScript(kinds, inputs, scripts, newlines) ==
    /\ commands = <<>>
    /\ script \in scripts
    /\ InitData(kinds, inputs, newlines, {LINE_BYTE_LIMIT}, "add_script")

(* the same under the separator and the limit of the command line *)
InitRun(kinds, inputs, programs) ==
    InitWorking(kinds, inputs, programs, {DefaultNewline}, {LINE_BYTE_LIMIT})

Kinds == {"stdin", "file"}

(* commands as the parser builds them *)
Substitute(cond, find, replace, g, nth, p, w) ==
    [Command("s", cond) EXCEPT !.find = find, !.replace = replace,
        !.global_replace = g, !.nth_match = nth, !.print_matched_lines = p,
        !.has_matched_file = w]

WithText(cmd, cond, text) == [Command(cmd, cond) EXCEPT !.text = text]

Ranges ==
    {RangeSedCondition(a, None) : a \in 1..MaxLineNo} \cup
    UNION {{RangeSedCondition(a, Some(b)) : b \in (a + 1)..MaxLineNo} : a \in 1..MaxLineNo}

Conditions ==
    {NoCondition} \cup Ranges \cup {RegexSedCondition(<<"a">>), RegexSedCondition(<<"a", "a">>)}

Actions(cond) ==
    {Substitute(cond, Pattern(FALSE, <<"a">>), <<"X">>, FALSE, None, FALSE, FALSE),
     Substitute(cond, Pattern(FALSE, <<"b">>), <<"X">>, TRUE, None, TRUE, FALSE),
     WithText("a", cond, <<"T">>),
     WithText("i", cond, <<"I">>),
     Command("d", cond),
     Command("p", cond)}

Guarded == UNION {Actions(cond) : cond \in Conditions}

Queueing == {WithText("a", NoCondition, <<"U">>), WithText("i", NoCondition, <<"J">>)}

Programs ==
    {<<c>> : c \in Guarded} \cup
    {<<q, c>> : q \in Queueing, c \in UNION {Actions(cond) : cond \in Ranges}} \cup
    {<<q, Command("d", cond), c>> :
        q \in Queueing, cond \in Conditions, c \in Actions(NoCondition)}

Inputs == SeqsUpTo({"a", "\n"}, MaxInput)

Init == InitRun(Kinds, Inputs, Programs)

Next ==
    \/ NextLine
    \/ SubstituteCommand
    \/ AppendCommand
    \/ InsertCommand
    \/ DeleteCommand
    \/ PrintCommand
    \/ EndCycle
    \/ FinalFlush

Spec == Init /\ [][Next]_vars

(* Runs of one s command on an input of one line *)

Finds ==
    {Pattern(anchored, lit) :
        anchored \in BOOLEAN, lit \in {<<>>, <<"a">>, <<"a", "a">>}}

Replacements == {<<>>, <<"X">>, <<"a", "a">>}

Numbers == {None} \cup {Some(n) : n \in 0..MaxNth}

SubPrograms ==
    {<<Substitute(NoCondition, find, replace, g, nth, FALSE, FALSE)>> :
        find \in Finds, replace \in Replacements, g \in BOOLEAN, nth \in Numbers}
    \cup
    {<<Substitute(NoCondition, Pattern(anchored, <<"a">>), <<"X">>, g, nth, p, w)>> :
        anchored \in BOOLEAN, g \in BOOLEAN, nth \in {None, Some(2)},
        p \in BOOLEAN, w \in BOOLEAN}

SubInputs ==
    {line \o end : line \in SeqsUpTo({"a", "b"}, MaxSubInput),
                   end \in {<<>>, DefaultNewline}}

InitSub == InitRun(Kinds, SubInputs, SubPrograms)

NextSub ==
    \/ NextLine
    \/ SubstituteCommand
    \/ EndCycle
    \/ FinalFlush

SpecSub == InitSub /\ [][NextSub]_vars

(* Runs of programs with c, h, G, the branches and the labels *)

Replace(cond, replace) == [Command("c", cond) EXCEPT !.replace = replace]

Branch(cmd, cond, branch_name) == [Command(cmd, cond) EXCEPT !.branch_name = branch_name]

LabelCommand(label) == [Command(":", NoCondition) EXCEPT !.label = label]

SubstituteFirst(cond, lit) ==
    Substitute(cond, Pattern(FALSE, lit), <<"X">>, FALSE, None, FALSE, FALSE)

FirstLines == {NoCondition} \cup {RangeSedCondition(a, None) : a \in 1..MaxFlowLineNo}

ReplacePrograms ==
    {<<Replace(cond, <<"X">>)>> : cond \in Conditions} \cup
    {<<Replace(cond, <<"X">>), c>> :
        cond \in Conditions,
        c \in {Command("p", NoCondition), SubstituteFirst(NoCondition, <<"X">>)}} \cup
    {<<q, Replace(cond, <<"X">>), WithText("a", NoCondition, <<"T">>)>> :
        q \in Queueing, cond \in FirstLines}

HoldPrograms ==
    {<<Command("h", hc), Command("G", gc), c>> :
        hc \in FirstLines, gc \in FirstLines,
        c \in {Command("p", NoCondition), Command("h", NoCondition),
               Command("d", NoCondition),
               Substitute(NoCondition, Pattern(FALSE, <<"a">>), <<"X">>, TRUE, None,
                          FALSE, FALSE)}}

BranchNames == {"e", "nope"}

BranchPrograms ==
    {<<Branch("b", cond, name), SubstituteFirst(NoCondition, <<"a">>),
       LabelCommand("e"), Command("p", NoCondition)>> :
        cond \in Conditions, name \in BranchNames \cup {""}} \cup
    {<<q, Branch("b", cond, "e"), WithText("a", NoCondition, <<"T">>),
       LabelCommand("e"), Command("p", NoCondition), LabelCommand("e")>> :
        q \in Queueing, cond \in FirstLines}

TestPrograms ==
    {<<SubstituteFirst(sc, <<"a">>), Branch(cmd, tc, name), Command("p", NoCondition),
       LabelCommand("e"), WithText("a", NoCondition, <<"T">>), LabelCommand("e")>> :
        sc \in FirstLines, cmd \in {"t", "T"}, tc \in FirstLines, name \in BranchNames}

FlowPrograms == ReplacePrograms \cup HoldPrograms \cup BranchPrograms \cup TestPrograms

FlowInputs == SeqsUpTo({"a", "\n"}, MaxFlowInput)

InitFlow == InitRun(Kinds, FlowInputs, FlowPrograms)

NextFlow ==
    \/ NextLine
    \/ SubstituteCommand
    \/ AppendCommand
    \/ InsertCommand
    \/ DeleteCommand
    \/ PrintCommand
    \/ ReplaceCommand
    \/ SetHoldspace
    \/ AppendFromHoldspace
    \/ BranchCommand
    \/ TestBranchCommand
    \/ TestBranchNotCommand
    \/ Label
    \/ EndCycle
    \/ FinalFlush

SpecFlow == InitFlow /\ [][NextFlow]_vars

(* Runs over one or two files, in place or not, of programs with q and Q *)

Quit(cmd, cond, code) == [Command(cmd, cond) EXCEPT !.exit_code = code]

ExitCodes == {0, 5}

QuitPrograms ==
    {<<q, Quit(cmd, cond, code), Command("p", NoCondition)>> :
        q \in Queueing, cmd \in {"q", "Q"}, cond \in FirstLines,
        code \in ExitCodes} \cup
    {<<WithText("i", NoCondition, <<"J">>), WithText("a", NoCondition, <<"T">>),
       Quit(cmd, cond, 0)>> :
        cmd \in {"q", "Q"}, cond \in FirstLines}

EditPrograms ==
    {<<c>> : c \in UNION {{SubstituteFirst(cond, <<"a">>), Command("p", cond),
                            WithText("a", cond, <<"T">>)} : cond \in FirstLines}}

FilePrograms == QuitPrograms \cup EditPrograms

(* one file, two files, the same file twice *)
FileLists == {<<"f">>, <<"f", "g">>, <<"f", "f">>}

FileContents == SeqsUpTo({"a", "\n"}, MaxFileLen)

(* the state in which Sed.execute starts on files that exist, on one of the
   programs given, under one of the record limits given: WorkingData as
   __init__ leaves it, no file taken yet; of the files that are no input,
   those of others may exist *)
InitFilesOf(programs, others, limits) ==
    /\ commands \in programs
    /\ in_kind = "file"
    /\ files \in FileLists
    /\ fs \in {f \in [Names -> {None} \cup {Some(b) : b \in FileContents}] :
                  \A n \in Names :
                      /\ (\E k \in 1..Len(files) : files[k] = n) => ~IsNone(f[n])
                      /\ IsNone(f[n]) \/ n \in others
                             \/ \E k \in 1..Len(files) : files[k] = n}
    /\ in_place \in BOOLEAN
    /\ in_place_backup_suffix \in
           IF in_place THEN {None} \cup {Some(suffix) : suffix \in Suffixes} ELSE {None}
    /\ input = Concat([k \in 1..Len(files) |-> Val(fs[files[k]])])
    /\ original = <<>>
    /\ file_idx = 0
    /\ exit_code = None
    /\ in_data = <<>>
    /\ in_eof = FALSE
    /\ in_file_iter = FALSE
    /\ newline = DefaultNewline
    /\ line_byte_limit \in limits
    /\ w_file = <<>>
    /\ line_number = 0
    /\ pattern_modified = FALSE
    /\ file_modified = FALSE
    /\ insert_space = None
    /\ pattern_space = None
    /\ append_space = None
    /\ jump_to = NoJump
    /\ holdspace = <<>>
    /\ out_file = <<>>
    /\ matched_file = <<>>
    /\ i = 0
    /\ script = <<>>
    /\ stderr = None
    /\ InitWriters
    /\ pc = "set_in_file"
    /\ last = Step("init", 0, FALSE, NoSubstitute)
    /\ cycle = <<>>
    /\ acted = FALSE
    /\ line_files = <<>>

InitFiles == InitFilesOf(FilePrograms, {}, {LINE_BYTE_LIMIT})

NextFiles ==
    \/ SetInFile
    \/ NextLine
    \/ SubstituteCommand
    \/ AppendCommand
    \/ InsertCommand
    \/ PrintCommand
    \/ QuitCommand
    \/ QuitWithoutPrintCommand
    \/ EndCycle
    \/ FinalFlush
    \/ Backup
    \/ Remove
    \/ CopyTemp

SpecFiles == InitFiles /\ [][NextFiles]_vars

(* Runs of N, D, p, w and W under a separator of one byte or of two, the
   commands compiled from a script or added through add_command *)

Newlines == {DefaultNewline, <<"\r", "\n">>}

LineScripts ==
    {<<"D">>,
     <<"p", ";", "D">>,
     <<"N", ";", "D">>,
     <<"N", ";", "p", ";", "D">>,
     <<"N", "\n", "D", ";", "p">>,
     <<"w", " ", "f">>,
     <<"W", " ", "f">>,
     <<"N", ";", "w", " ", "f">>,
     <<"N", ";", "W", " ", "f">>,
     <<"N", "\n", "N", "\n", "W", " ", "f">>}

LinePrograms ==
    {<<Command("W", NoCondition)>>,
     <<Command("N", NoCondition), Command("W", NoCondition)>>,
     <<Command("N", NoCondition), Command("W", NoCondition), Command("D", NoCondition)>>}

LinesInputs == SeqsUpTo({"a", "\r", "\n"}, MaxLinesInput)

InitLines ==
    \/ InitScript(Kinds, LinesInputs, LineScripts, Newlines)
    \/ InitWorking(Kinds, LinesInputs, LinePrograms, Newlines, {LINE_BYTE_LIMIT})

NextLines ==
    \/ AddScript
    \/ NextLine
    \/ AppendNextCommand
    \/ DeleteToNewlineCommand
    \/ PrintCommand
    \/ WritePatternCommand
    \/ WritePatternToNewlineCommand
    \/ EndCycle
    \/ FinalFlush

SpecLines == InitLines /\ [][NextLines]_vars

-----------------------------------------------------------------------------
(* Runs of l on records of one byte, of every value, with and without the
   separator after it; the bytes are their values and the separator is the
   byte 10 *)

ByteValues == 0..255

PrintInputs == {<<b>> : b \in ByteValues} \cup {<<b, 10>> : b \in ByteValues}

InitPrint ==
    InitWorking(Kinds, PrintInputs, {<<Command("l", NoCondition)>>}, {<<10>>},
                {LINE_BYTE_LIMIT})

NextPrint ==
    \/ NextLine
    \/ UnambiguousPrint
    \/ EndCycle
    \/ FinalFlush

SpecPrint == InitPrint /\ [][NextPrint]_vars

-----------------------------------------------------------------------------
(* Runs of p, or of no command, on records longer than LINE_BYTE_LIMIT, the
   limit being a small number *)

CapInputs == SeqsUpTo({"a", "\n"}, MaxCapInput)

InitCap ==
    InitWorking(Kinds, CapInputs, {<<>>, <<Command("p", NoCondition)>>},
                {DefaultNewline}, 1..MaxLimit)

NextCap ==
    \/ NextLine
    \/ PrintCommand
    \/ EndCycle
    \/ FinalFlush

SpecCap == InitCap /\ [][NextCap]_vars

-----------------------------------------------------------------------------
(* Runs of main on scripts of one to MaxExprs expressions of the commands of
   one character, separated by `;', by a newline or by a backslash and a
   newline, the last one with or without characters after its command; the
   bytes of the input are their values *)

Singles == {"d", "D", "h", "H", "g", "G", "F", "l"}

Separators == {<<";">>, <<"\n">>, <<"\\", "\n">>}

Extras == {<<>>, <<"x">>, <<" ", "x">>, <<"d">>}

\* the expressions before the last one, and the last one
FirstExprs == {<<c>> \o sep : c \in {"h", "G"}, sep \in Separators}

LastExprs ==
    {address \o <<c>> \o extra : address \in {<<>>, <<"1">>}, c \in Singles,
                                 extra \in Extras}

RECURSIVE ScriptsOf(_)
ScriptsOf(n) ==
    IF n = 1 THEN LastExprs
    ELSE {first \o rest : first \in FirstExprs, rest \in ScriptsOf(n - 1)}

ParseScripts == UNION {ScriptsOf(n) : n \in 1..MaxExprs}

ParseInputs == {<<97, 10>>, <<97, 10, 98>>}

InitParse == InitScript(Kinds, ParseInputs, ParseScripts, {<<10>>})

NextParse ==
    \/ AddScript
    \/ NextLine
    \/ DeleteCommand
    \/ DeleteToNewlineCommand
    \/ SetHoldspace
    \/ AppendHoldspace
    \/ SetFromHoldspace
    \/ AppendFromHoldspace
    \/ FileCommand
    \/ UnambiguousPrint
    \/ EndCycle
    \/ FinalFlush

SpecParse == InitParse /\ [][NextParse]_vars

-----------------------------------------------------------------------------
(* Threads constructing and destroying up to MaxWriters SharedFileWriter
   objects on two paths, in any order, no script running *)

InitWriting ==
    InitWorking({"stdin"}, {<<>>}, {<<>>}, {DefaultNewline}, {LINE_BYTE_LIMIT})

NextWriting ==
    \E w \in WriterIds :
        \/ WriterNew(w)
        \/ WriterInitEnter(w)
        \/ WriterInitBody(w)
        \/ WriterInitExit(w)
        \/ WriterInitRaise(w)
        \/ WriterDelEnter(w)
        \/ WriterDelBody(w)
        \/ WriterDelExit(w)

SpecWriters == InitWriting /\ [][NextWriting]_vars

-----------------------------------------------------------------------------
(* What the claims speak of *)

\* the bytes of None or Some(b)
Bytes(x) == IF IsNone(x) THEN <<>> ELSE Val(x)

\* the step taken from this state handles a command of kind cmd and its
\* condition matches
Handles(cmd) ==
    /\ pc = "commands"
    /\ i < Len(commands)
    /\ commands[i + 1].cmd = cmd
    /\ ConditionMatches(commands[i + 1].cond, Dat)

\* the records of a byte stream: each ends with the separator, but for a last
\* one that the stream leaves unterminated
RECURSIVE Records(_)
Records(s) ==
    IF s = <<>> THEN <<>>
    ELSE IF Find(s, DefaultNewline) < 0 THEN <<s>>
    ELSE <<Slice(s, 0, Find(s, DefaultNewline) + 1)>>
             \o Records(SliceFrom(s, Find(s, DefaultNewline) + 1))

\* the matches of a pattern in s, scanning from the left: [start, end] of
\* each, none overlapping another
RECURSIVE MatchesFrom(_, _, _)
MatchesFrom(pat, s, pos) ==
    LET at == {k \in pos..(Len(s) - Len(pat.lit)) :
                  /\ SubSeq(s, k + 1, k + Len(pat.lit)) = pat.lit
                  /\ pat.anchored => k = 0}
        k == SetMin(at)
    IN  IF at = {} THEN <<>>
        ELSE <<[start |-> k, end |-> k + Len(pat.lit)]>>
                 \o MatchesFrom(pat, s, IF pat.lit = <<>> THEN k + 1 ELSE k + Len(pat.lit))

Matches(pat, s) == MatchesFrom(pat, s, 0)

\* s with its matches ms numbered in sel replaced by repl, from match j and
\* position pos on
RECURSIVE ReplaceFrom(_, _, _, _, _, _)
ReplaceFrom(s, ms, sel, repl, j, pos) ==
    IF j > Len(ms) THEN SliceFrom(s, pos)
    ELSE Slice(s, pos, ms[j].start)
             \o (IF j \in sel THEN repl ELSE Slice(s, ms[j].start, ms[j].end))
             \o ReplaceFrom(s, ms, sel, repl, j + 1, ms[j].end)

Replaced(c, s, sel) == ReplaceFrom(s, Matches(c.find, s), sel, c.replace, 1, 0)

-----------------------------------------------------------------------------
(* C1: when no command's condition ever matched and no substitution matched,
   the bytes written to the output over the whole run are the input bytes,
   in order: read from standard input or a file, with or without a trailing
   separator. *)
C1_Identity == (pc = "done" /\ ~acted) => out_file = input

C1_Witness ==
    /\ pc = "done"
    /\ ~acted
    /\ in_kind = "stdin"
    /\ Len(Records(input)) >= 2
    /\ ~EndsWith(input, newline)
    /\ out_file = input

-----------------------------------------------------------------------------
\* the last step handled a command of kind cmd whose condition matched;
\* last.ps is the pattern space it found
JustRan(cmd) == last.op = cmd /\ last.fired

LastCommand == commands[last.index + 1]

LastMatches == Matches(LastCommand.find, Val(last.ps))

(* C2: an s command with neither g nor a number replaces the first match of
   the pattern space only; every later match and every other byte stay, and
   without a match the pattern space is unchanged. *)
C2_FirstMatchOnly ==
    (/\ JustRan("s")
     /\ ~LastCommand.global_replace
     /\ IsNone(LastCommand.nth_match))
    => /\ Val(pattern_space) = Replaced(LastCommand, Val(last.ps), {1})
       /\ (LastMatches = <<>> => pattern_space = last.ps)

C2_Witness ==
    /\ JustRan("s")
    /\ ~LastCommand.global_replace
    /\ IsNone(LastCommand.nth_match)
    /\ Len(LastMatches) >= 2
    /\ LastCommand.replace = <<"X">>
    /\ pattern_space # last.ps

(* C3: an s command with g and no number replaces every match found scanning
   the original pattern space from the left, none overlapping another; the
   replacement text is not searched again. *)
C3_GlobalAllMatches ==
    (/\ JustRan("s")
     /\ LastCommand.global_replace
     /\ IsNone(LastCommand.nth_match))
    => Val(pattern_space) = Replaced(LastCommand, Val(last.ps), 1..Len(LastMatches))

(* C4: an s command with the number k >= 1 and no g replaces the k-th match
   and no other, and its loop stops right after that replacement; with fewer
   than k matches nothing is replaced. *)
C4_NthMatchOnly ==
    (/\ JustRan("s")
     /\ ~LastCommand.global_replace
     /\ ~IsNone(LastCommand.nth_match)
     /\ Val(LastCommand.nth_match) >= 1)
    => /\ Val(pattern_space) =
              Replaced(LastCommand, Val(last.ps), {Val(LastCommand.nth_match)})
       /\ last.count <= 1
       /\ last.count = 1 => last.match_idx = Val(LastCommand.nth_match) - 1
       /\ Len(LastMatches) < Val(LastCommand.nth_match) => pattern_space = last.ps

C4_Witness ==
    /\ JustRan("s")
    /\ ~LastCommand.global_replace
    /\ LastCommand.nth_match = Some(2)
    /\ Len(LastMatches) >= 3
    /\ LastCommand.replace = <<"X">>
    /\ last.count = 1

(* C5: an s command with both the number k >= 1 and g leaves the matches
   1..k-1 as they are and replaces the k-th match and every later one. *)
C5_NthAndGlobal ==
    (/\ JustRan("s")
     /\ LastCommand.global_replace
     /\ ~IsNone(LastCommand.nth_match)
     /\ Val(LastCommand.nth_match) >= 1)
    => Val(pattern_space) =
           Replaced(LastCommand, Val(last.ps),
                    Val(LastCommand.nth_match)..Len(LastMatches))

(* C6: one run of an s command with the p and/or w flag prints, and writes
   to its file, once when a match was substituted, however many were, and
   what it emits is the pattern space after every substitution: with p that
   pattern space is in the output twice by the end of the cycle.  When no
   match was substituted nothing is printed or written, and the pattern
   space is in the output once. *)
C6_PrintWriteOnce ==
    [][(pc = "flush" /\ JustRan("s")) =>
          LET ps == Val(pattern_space)
              made == last.count > 0
          IN  /\ out_file' = last.out_file
                     \o (IF LastCommand.print_matched_lines /\ made THEN ps ELSE <<>>)
                     \o ps
              /\ matched_file = last.matched_file
                     \o (IF LastCommand.has_matched_file /\ made THEN ps ELSE <<>>)
              /\ matched_file' = matched_file]_vars

C6_Witness ==
    /\ pc = "flush"
    /\ JustRan("s")
    /\ LastCommand.print_matched_lines
    /\ LastCommand.has_matched_file
    /\ last.count >= 2
    /\ out_file = last.out_file \o Val(pattern_space)
    /\ matched_file = last.matched_file \o Val(pattern_space)

-----------------------------------------------------------------------------
CommandKinds == {"s", "a", "i", "d", "p", "c", "h", "G", "b", "t", "T", "q", "Q", ":"}

\* the line range (a, b) of an address; a single number a means (a, a)
InRange(cond, n) ==
    /\ cond.start_line <= n
    /\ n <= (IF IsNone(cond.given_end) THEN cond.start_line ELSE Val(cond.given_end))

(* C7: a command under the line range (a, b) acts in a cycle if and only if
   a <= line number <= b when it is reached; in any other cycle it leaves
   the pattern space, the hold space, the queues, the flags and the output
   as they are and the command loop goes on with the next command. *)
C7_RangeFrame ==
    [][(/\ pc = "commands"
        /\ i < Len(commands)
        /\ commands[i + 1].cond.kind = "range") =>
          /\ last'.fired = InRange(commands[i + 1].cond, line_number)
          /\ Handles(commands[i + 1].cmd) = InRange(commands[i + 1].cond, line_number)
          /\ ~InRange(commands[i + 1].cond, line_number) =>
                 /\ UNCHANGED DatVars
                 /\ i' = i + 1]_vars

C7_Witness ==
    /\ last.op \in CommandKinds
    /\ LastCommand.cond.kind = "range"
    /\ ~last.fired
    /\ last.line_number > LastCommand.cond.end_line
    /\ LastCommand.cond.end_line > LastCommand.cond.start_line
    /\ ~IsNone(append_space)
    /\ i = last.index + 1

\* the program is the one command cmd under the single line number k
OnlyCommandAt(cmd, k) ==
    /\ Len(commands) = 1
    /\ commands[1].cmd = cmd
    /\ commands[1].cond = RangeSedCondition(k, None)

\* ss without its k-th element
Without(ss, k) == [j \in 1..(Len(ss) - 1) |-> IF j < k THEN ss[j] ELSE ss[j + 1]]

(* C8: the d command under the single line number k removes the k-th input
   line from the output and nothing else: every other line is written as it
   is, in its place. *)
C8_DeleteLine ==
    \A k \in 1..MaxLineNo :
        (pc = "done" /\ OnlyCommandAt("d", k)) =>
            out_file = (IF k <= Len(Records(input))
                        THEN Concat(Without(Records(input), k))
                        ELSE input)

C8_Witness ==
    /\ pc = "done"
    /\ OnlyCommandAt("d", 2)
    /\ Len(Records(input)) >= 3
    /\ out_file = Records(input)[1] \o Records(input)[3]
    /\ Records(input)[1] # Records(input)[2]

(* C9: when d acts, no command after it is handled in that cycle: the next
   step is the flush at the end of the cycle, which writes the text that a
   and i queued before the d. *)
C9_DeleteEndsCycle ==
    [][JustRan("d") =>
          /\ pc = "flush"
          /\ insert_space = last.insert_space
          /\ append_space = last.append_space
          /\ last'.op = "flush"
          /\ out_file' = out_file \o Bytes(insert_space) \o Bytes(append_space)]_vars

C9_Witness ==
    /\ JustRan("d")
    /\ last.index + 1 < Len(commands)
    /\ ~IsNone(append_space)
    /\ pc = "flush"

\* b as a line of its own
Line(b, nl) == IF EndsWith(b, nl) THEN b ELSE b \o nl

(* C10: in every cycle in which a (or i) acts on an input line the output
   gains one line holding the text of the command right after (or right
   before) that line, and the line itself is written unchanged as a line of
   its own; also when it is the last line and has no separator. *)
C10_AppendInsertLine ==
    [][(/\ pc = "flush"
        /\ Len(commands) = 1
        /\ commands[1].cmd \in {"a", "i"}
        /\ JustRan(commands[1].cmd)
        /\ Val(pattern_space) # <<>>) =>
          out_file' = out_file \o
              (IF commands[1].cmd = "a"
               THEN Line(Val(pattern_space), newline) \o Line(commands[1].text, newline)
               ELSE Line(commands[1].text, newline) \o Val(pattern_space))]_vars

-----------------------------------------------------------------------------
\* the text of the c command, with the separator when the pattern space it
\* replaces ended with one
ReplaceText(c, old) == IF EndsWith(old, newline) THEN c.replace \o newline ELSE c.replace

(* C11: when c acts, the pattern space becomes its text, with a separator at
   the end if and only if the old pattern space had one, and the cycle ends:
   no command after the c is handled in that cycle, the next step is the
   flush at the end of the cycle, which writes the text once. *)
C11_ReplaceEndsCycle ==
    [][JustRan("c") =>
          /\ Val(pattern_space) = ReplaceText(LastCommand, Val(last.ps))
          /\ pc = "flush"
          /\ last'.op = "flush"
          /\ out_file' = out_file \o Bytes(insert_space) \o Val(pattern_space)
                             \o Bytes(append_space)]_vars

(* C12: after G acts, the pattern space is the pattern space it found, then
   a separator (the one it ended with, or a new one), then the hold space;
   the commands after the G in the cycle find this pattern space. *)
C12_AppendFromHoldspace ==
    JustRan("G") =>
        Val(pattern_space) \in {Val(last.ps) \o newline \o holdspace,
                                Line(Val(last.ps), newline) \o holdspace}

-----------------------------------------------------------------------------
\* the indices of the commands that bear the label
Bears(label) == {j \in 0..(Len(commands) - 1) : commands[j + 1].label = label}

\* the n-th command handled in this cycle
CycleCommand(n) == commands[cycle[n].index + 1]

(* C13: in a cycle where a b command with a label acts, the command handled
   next is one bearing that label, and no command between the branch and
   that label is handled afterwards in the cycle; where the condition of the
   b does not match, the command handled next is the one after the b. *)
C13_BranchSkips ==
    \A n \in 1..(Len(cycle) - 1) :
        (CycleCommand(n).cmd = "b" /\ CycleCommand(n).branch_name # "") =>
            IF cycle[n].fired
            THEN /\ cycle[n + 1].index \in Bears(CycleCommand(n).branch_name)
                 /\ \A m \in (n + 1)..Len(cycle) :
                        ~(/\ cycle[n].index < cycle[m].index
                          /\ cycle[m].index < cycle[n + 1].index)
            ELSE cycle[n + 1].index = cycle[n].index + 1

C13_Witness ==
    /\ pc = "flush"
    /\ Len(cycle) >= 3
    /\ CycleCommand(2).cmd = "b"
    /\ CycleCommand(2).cond.kind = "range"
    /\ cycle[2].fired
    /\ cycle[3].index > cycle[2].index + 1
    /\ commands[cycle[2].index + 2].cmd = "a"
    /\ IsNone(append_space)
    /\ line_number = 2

-----------------------------------------------------------------------------
\* the step taken from this state handles a b, t or T command that asks for
\* a jump to its label
Jumps ==
    /\ pc = "commands"
    /\ i < Len(commands)
    /\ commands[i + 1].cmd \in {"b", "t", "T"}
    /\ commands[i + 1].branch_name # ""
    /\ ConditionMatches(commands[i + 1].cond, Dat)
    /\ commands[i + 1].cmd = "t" => pattern_modified
    /\ commands[i + 1].cmd = "T" => ~pattern_modified

(* C14: a jump to a label that no command bears ends the run with an error
   at once: nothing is written, no record is read and no step follows; a
   jump to a label that several commands bear goes to the first of them. *)
C14_MissingLabel ==
    [][/\ pc # "error"
       /\ Jumps =>
            IF Bears(commands[i + 1].branch_name) = {}
            THEN /\ pc' = "error"
                 /\ UNCHANGED <<out_file, in_data, line_number, pattern_space>>
            ELSE /\ pc' # "error"
                 /\ i' \in Bears(commands[i + 1].branch_name)
                 /\ \A j \in Bears(commands[i + 1].branch_name) : i' <= j]_vars

C14_Witness ==
    /\ pc = "error"
    /\ last.op \in {"b", "t", "T"}
    /\ last.index + 1 < Len(commands)
    /\ in_data # <<>>
    /\ exit_code = None

-----------------------------------------------------------------------------
\* the commands whose action sets the pattern space
Modifying == {"s", "c", "d"}

(* C15: a t command whose condition matches jumps to its label if and only
   if pattern_modified is true, a T command if and only if it is false;
   pattern_modified is false when a record has just been read, and is true
   only after a command of the same cycle has set the pattern space. *)
C15_TestBranch ==
    /\ [][(/\ pc = "commands"
           /\ i < Len(commands)
           /\ commands[i + 1].cmd \in {"t", "T"}
           /\ commands[i + 1].branch_name # ""
           /\ ConditionMatches(commands[i + 1].cond, Dat)) =>
             IF (commands[i + 1].cmd = "t") = pattern_modified
             THEN IF Bears(commands[i + 1].branch_name) = {}
                  THEN pc' = "error"
                  ELSE i' \in Bears(commands[i + 1].branch_name)
             ELSE pc' # "error" /\ i' = i + 1]_vars
    /\ []((last.op = "next_line" /\ last.fired) => ~pattern_modified)
    /\ [](pattern_modified =>
             \E n \in 1..Len(cycle) :
                 cycle[n].fired /\ CycleCommand(n).cmd \in Modifying)

C15_Witness ==
    /\ JustRan("t")
    /\ line_number = 2
    /\ ~pattern_modified
    /\ commands[1].cmd = "s"
    /\ commands[1].cond = RangeSedCondition(1, None)
    /\ Find(input, <<"a">>) = 0
    /\ i = last.index + 1
    /\ pc = "commands"

-----------------------------------------------------------------------------
(* C16: when q or Q acts, Sed.execute returns the exit code of the command
   (0 when the command has none) and nothing follows: no command is handled,
   no record is read, no file is opened. *)
C16_QuitReturns ==
    /\ []((JustRan("q") \/ JustRan("Q")) =>
             /\ pc = "done"
             /\ exit_code = Some(LastCommand.exit_code))
    /\ [][~(JustRan("q") \/ JustRan("Q"))]_vars

C16_Witness ==
    /\ JustRan("q")
    /\ exit_code = Some(5)
    /\ last.index + 1 < Len(commands)
    /\ in_data # <<>>
    /\ file_idx < Len(files)
    /\ pc = "done"

(* C17: q writes the insert queue, then the pattern space, then the append
   queue; Q writes the insert queue and nothing else, so that the pattern
   space and the append queue it found are not in the output. *)
C17_QuitFlush ==
    /\ JustRan("q") =>
           out_file = last.out_file \o Bytes(last.insert_space) \o Bytes(last.ps)
                          \o Bytes(last.append_space)
    /\ JustRan("Q") => out_file = last.out_file \o Bytes(last.insert_space)

C17_Witness ==
    /\ JustRan("Q")
    /\ Truthy(last.insert_space)
    /\ Truthy(last.ps)
    /\ Truthy(last.append_space)
    /\ out_file = last.out_file \o Val(last.insert_space)
    /\ pc = "done"

-----------------------------------------------------------------------------
(* C18: the flush at the end of a cycle writes the insert queue, then the
   pattern space when there is one, then the append queue, and leaves all
   three empty; the reading of the next record and the final flush, which
   flush again, write nothing more, and the next cycle starts with empty
   queues. *)
C18_FlushOrder ==
    [][/\ pc = "flush" =>
            /\ out_file' = out_file \o Bytes(insert_space) \o Bytes(pattern_space)
                               \o Bytes(append_space)
            /\ IsNone(insert_space')
            /\ IsNone(pattern_space')
            /\ IsNone(append_space')
       /\ pc \in {"next_line", "final_flush"} =>
            /\ out_file' = out_file
            /\ IsNone(insert_space')
            /\ IsNone(append_space')]_vars

C18_Witness ==
    /\ last.op = "flush"
    /\ Truthy(last.insert_space)
    /\ Truthy(last.ps)
    /\ Truthy(last.append_space)
    /\ out_file = last.out_file \o Val(last.insert_space) \o Val(last.ps)
                      \o Val(last.append_space)
    /\ IsNone(insert_space)
    /\ IsNone(pattern_space)
    /\ IsNone(append_space)
    /\ last.line_number = 2

-----------------------------------------------------------------------------
\* where Sed.execute stands while it replaces a file by its temporary file
CommitSteps == {"backup", "remove", "copy"}

(* C19: in place, the files are changed by the replacement of a file only,
   and a file at whose final flush file_modified is false is not replaced:
   its bytes stay and no backup of it is made, with or without a suffix,
   whatever was done to the files before it. *)
C19_UnmodifiedUntouched ==
    [][/\ pc \notin CommitSteps => fs' = fs
       /\ (pc = "final_flush" /\ ~file_modified') =>
              /\ pc' \notin CommitSteps
              /\ fs[FileName] = Some(original)]_vars

C19_Witness ==
    /\ pc = "done"
    /\ exit_code = Some(0)
    /\ files = <<"f", "g">>
    /\ ~IsNone(in_place_backup_suffix)
    /\ ~file_modified
    /\ original # <<>>
    /\ fs["g"] = Some(original)
    /\ IsNone(fs["g.bak"])
    /\ ~IsNone(fs["f.bak"])
    /\ fs["f"] # fs["f.bak"]

(* C20: when a file is replaced with a backup suffix, the backup holds the
   original bytes before the path is removed, the original is in place while
   the backup is made, and when the replacement is over the backup holds the
   original bytes and the path holds the bytes written to the temporary
   file. *)
C20_BackupBeforeReplace ==
    [][~IsNone(in_place_backup_suffix) =>
          LET backup_name == BackupName(FileName, Val(in_place_backup_suffix)) IN
          /\ pc = "backup" =>
                 /\ fs[FileName] = Some(original)
                 /\ fs'[FileName] = Some(original)
                 /\ fs'[backup_name] = Some(original)
          /\ pc = "remove" =>
                 /\ fs[backup_name] = Some(original)
                 /\ fs'[backup_name] = Some(original)
          /\ pc = "copy" =>
                 /\ fs'[backup_name] = Some(original)
                 /\ fs'[FileName] = Some(out_file)
          /\ (pc = "final_flush" /\ pc' \in CommitSteps) => pc' = "backup"]_vars

C20_Witness ==
    /\ last.op = "copy"
    /\ ~IsNone(in_place_backup_suffix)
    /\ fs[FileName] = Some(out_file)
    /\ fs[BackupName(FileName, Val(in_place_backup_suffix))] = Some(original)
    /\ original # <<>>
    /\ out_file # original
    /\ file_idx = 2

-----------------------------------------------------------------------------
(* C29: an s command whose find pattern is anchored at the start, with no
   number or the number 1, makes at most one substitution in one run, at the
   start of the pattern space it found, whatever its other flags, g
   included. *)
C29_AnchoredOnce ==
    (/\ JustRan("s")
     /\ LastCommand.find.anchored
     /\ LastCommand.nth_match \in {None, Some(1)})
    => /\ last.count <= 1
       /\ Val(pattern_space) = Replaced(LastCommand, Val(last.ps), {1})

-----------------------------------------------------------------------------
\* the window shrinks from each turn of the loop to the next
Shrinking(windows) ==
    \A k \in 1..(Len(windows) - 1) : windows[k + 1] < windows[k]

(* C30: the loop of an s command ends on every pattern space, pattern,
   replacement and flags: the part of the pattern space left to search is
   strictly shorter at each turn than at the turn before, also after a match
   of no byte, no turn follows a turn taken on an empty part, and so the
   turns are at most one more than the bytes of the pattern space found. *)
C30_LoopTerminates ==
    JustRan("s") =>
        /\ Shrinking(last.windows)
        /\ \A k \in 1..Len(last.windows) :
               last.windows[k] = 0 => k = Len(last.windows)
        /\ Len(last.windows) <= Len(Val(last.ps)) + 1
        /\ Len(last.windows) < MaxIterations

C30_Witness ==
    /\ JustRan("s")
    /\ LastCommand.find = Pattern(FALSE, <<>>)
    /\ LastCommand.global_replace
    /\ LastCommand.replace = <<"a", "a">>
    /\ Len(last.windows) = Len(Val(last.ps)) + 1
    /\ Len(Val(last.ps)) >= 3
    /\ last.count = Len(last.windows)

-----------------------------------------------------------------------------
(* C24: read from a file or from standard input, a record handed to a cycle
   is never empty, an unterminated last record included, and the run takes
   as many records, one cycle each, as the input stream holds: the same
   from both sources. *)
C24_SameRecords ==
    /\ (last.op = "next_line" /\ last.fired) => Val(pattern_space) # <<>>
    /\ pc = "done" => line_number = Len(Records(input))

-----------------------------------------------------------------------------
(* C21: when the pattern space holds a separator, D leaves as pattern space
   the bytes after the first whole separator, a separator of several bytes
   included, and the commands start again from the first one with no record
   read and no line counted; when it holds none, D empties the pattern space
   and ends the cycle as d does. *)
C21_DeleteToNewline ==
    JustRan("D") =>
        LET pos == Find(Val(last.ps), newline) IN
        IF pos >= 0
        THEN /\ pattern_space = Some(SliceFrom(Val(last.ps), pos + Len(newline)))
             /\ pc = "commands"
             /\ i = 0
             /\ line_number = last.line_number
             /\ in_data = last.in_data
        ELSE /\ pattern_space = Some(<<>>)
             /\ pc = "flush"

-----------------------------------------------------------------------------
(* C22: a W command compiled from a script appends to its file the pattern
   space up to and with the first separator, the whole pattern space when it
   holds none, and no byte after that separator; a w command appends the
   whole pattern space. *)
C22_WriteToNewline ==
    (JustRan("w") /\ LastCommand.script_char \in {"w", "W"}) =>
        LET loc == Find(Val(last.ps), newline) IN
        w_file = last.w_file \o
                 (IF LastCommand.script_char = "W" /\ loc >= 0
                  THEN Slice(Val(last.ps), 0, loc + Len(newline))
                  ELSE Val(last.ps))

-----------------------------------------------------------------------------
\* a backslash and the three octal digits of b, zeros in front
ThreeOctalDigits(b) == <<92, 48 + (b \div 64), 48 + ((b \div 8) % 8), 48 + (b % 8)>>

\* what l is said to print for the byte b
Rendered(b) ==
    IF b = newline[1] THEN <<36, b>>
    ELSE IF b \in DOMAIN CONVERSION_DICT THEN CONVERSION_DICT[b]
    ELSE IF b < 32 \/ b > 126 THEN ThreeOctalDigits(b)
    ELSE <<b>>

(* C23: l prints every byte below 32 or above 126 that is neither the
   separator nor one of the named escapes as a backslash followed by exactly
   three octal digits, zeros in front where the value needs fewer, for all
   byte values 0..255. *)
C23_ThreeOctalDigits ==
    JustRan("l") =>
        \E tail \in {<<>>, <<36>>} :
            out_file = last.out_file
                       \o Concat([k \in 1..Len(Val(last.ps)) |-> Rendered(Val(last.ps)[k])])
                       \o tail

-----------------------------------------------------------------------------
(* C25: the record handed to a cycle holds every byte read for it, up to and
   with its separator, also when it is longer than LINE_BYTE_LIMIT: the
   record followed by what is left to read is what was left to read before,
   and with no command the output of the whole run is the input. *)
C25_RecordInFull ==
    /\ (last.op = "next_line" /\ last.fired) =>
           Val(pattern_space) \o in_data = last.in_data
    /\ (pc = "done" /\ commands = <<>> /\ EndsWith(input, newline)) =>
           out_file = input

-----------------------------------------------------------------------------
\* the place of the first character after place k of s that is not a blank,
\* 0 when there is none
NextNonBlank(s, k) ==
    LET later == {j \in (k + 1)..Len(s) : s[j] # " "}
    IN  IF later = {} THEN 0 ELSE SetMin(later)

\* the places of s where a character follows a command of one character
\* without a `;' or a newline in between
ExtraAt(s) ==
    {j \in 1..Len(s) :
        \E k \in 1..(j - 1) :
            /\ s[k] \in Singles
            /\ k = 1 \/ s[k - 1] \in {";", "\n", "1"}
            /\ j = NextNonBlank(s, k)
            /\ s[j] \notin {";", "\n"}}

\* the place of the first of them
FailurePoint(s) == SetMin(ExtraAt(s))

\* the last place of the set, 0 when it is empty
LastOf(places) == IF places = {} THEN 0 ELSE CHOOSE k \in places : \A j \in places : j <= k

(* C26: a script where characters follow one of the commands d, D, h, H, g,
   G, F, l fails to compile with the message `extra characters after
   command' and the exit status 1, and when the compilation fails nothing
   has run: no record was read, no line counted, no cycle taken and no byte
   written to the output. *)
C26_ExtraCharactersFatal ==
    /\ (pc # "add_script" /\ ExtraAt(script) # {}) =>
           /\ pc = "error"
           /\ last.op = "add_script"
           /\ \E n \in 1..Len(script), pos \in 1..Len(script) :
                  stderr = Some(Report(ErrorAt(n, pos, "extra characters after command")))
           /\ exit_code = Some(1)
    /\ (pc = "error" /\ last.op = "add_script") =>
           /\ in_data = input
           /\ pattern_space = None
           /\ line_number = 0
           /\ cycle = <<>>
           /\ out_file = <<>>
           /\ w_file = <<>>
           /\ matched_file = <<>>

C26_Witness ==
    /\ pc = "error"
    /\ last.op = "add_script"
    /\ ExtraAt(script) # {}
    /\ FailurePoint(script) > 4
    /\ script[FailurePoint(script) - 1] \in Singles
    /\ in_data # <<>>

-----------------------------------------------------------------------------
\* the places before j of s that hold a `;' or a newline
DelimitersBefore(s, j) == {k \in 1..(j - 1) : s[k] \in {";", "\n"}}

\* the places before j of s that hold a newline ending a line of the script
NewlinesBefore(s, j) ==
    {k \in 1..(j - 1) : s[k] = "\n" /\ ~(k > 1 /\ s[k - 1] = "\\")}

(* C27 as stated: in `Error at expression #n, char pos', n counts from 1
   the expressions that `;' and newlines delimit in the whole script, and
   pos is the place of the failure, from 1, in that expression. *)
C27_ExpressionIndex ==
    (pc = "error" /\ last.op = "add_script" /\ ExtraAt(script) # {}) =>
        LET j == FailurePoint(script) IN
        stderr = Some(Report(ErrorAt(Cardinality(DelimitersBefore(script, j)) + 1,
                                     j - LastOf(DelimitersBefore(script, j)),
                                     "extra characters after command")))

(* C27 amended: n counts from 1 the lines of the script, and pos is the
   place of the failure, from 1, in that line, the expressions before it on
   the line and their `;' included. *)
C27_LineIndex ==
    (pc = "error" /\ last.op = "add_script" /\ ExtraAt(script) # {}) =>
        LET j == FailurePoint(script) IN
        stderr = Some(Report(ErrorAt(Cardinality(NewlinesBefore(script, j)) + 1,
                                     j - LastOf(NewlinesBefore(script, j)),
                                     "extra characters after command")))

C27_Witness ==
    /\ pc = "error"
    /\ last.op = "add_script"
    /\ ExtraAt(script) # {}
    /\ stderr = Some(Report(ErrorAt(2, 4, "extra characters after command")))
    /\ Cardinality(DelimitersBefore(script, FailurePoint(script))) = 2

-----------------------------------------------------------------------------
\* the objects whose __init__ has bound them to the path p and whose __del__
\* has not yet taken the mutex
LiveWriters(p) ==
    {w \in WriterIds : writers[w].pc \in {"init_bound", "live"} /\ writers[w].file_path = p}

(* C28: whatever the order in which threads construct writers, the ones
   whose open() fails included, and destroy them, whenever no thread holds
   the mutex the count stored under each path is the number of live writers
   bound to it and is at least 1, the handle of an entry is open, a path
   without entry has no live writer, and every handle no entry holds is
   closed. *)
C28_RegistryCount ==
    files_mutex = 1 =>
        /\ \A p \in WriterPaths :
               IF IsNone(shared_files[p]) THEN LiveWriters(p) = {}
               ELSE /\ Val(shared_files[p]).count = Cardinality(LiveWriters(p))
                    /\ Val(shared_files[p]).count >= 1
                    /\ ~handles[Val(shared_files[p]).file].closed
        /\ \A h \in 1..Len(handles) :
               (\A p \in WriterPaths :
                    IsNone(shared_files[p]) \/ Val(shared_files[p]).file # h)
               => handles[h].closed

-----------------------------------------------------------------------------
(* C40: when q or Q ends the run while a file is processed in place, the
   run is over at once and the file is not committed: the path holds the
   bytes it held when the file was opened, whatever the commands have
   signalled, no file changes, and no backup of it exists unless an earlier
   turn on the same path made one. *)
C40_QuitNoCommit ==
    [][(/\ pc = "commands"
        /\ i < Len(commands)
        /\ Quits(commands[i + 1], Dat)
        /\ TmpFile)
       => /\ pc' = "done"
          /\ fs' = fs
          /\ fs'[FileName] = Some(original)
          /\ \A suffix \in Suffixes :
                 ~IsNone(fs'[BackupName(FileName, suffix)]) =>
                     \E k \in 1..(file_idx - 1) : files[k] = FileName]_vars

C40_Witness ==
    /\ pc = "done"
    /\ last.op \in {"q", "Q"}
    /\ last.fired
    /\ TmpFile
    /\ ~IsNone(in_place_backup_suffix)
    /\ file_modified
    /\ out_file # <<>>
    /\ out_file # original
    /\ fs[FileName] = Some(original)
    /\ IsNone(fs[BackupName(FileName, Val(in_place_backup_suffix))])

-----------------------------------------------------------------------------
(* C35: the line number starts again with each input file: when a cycle
   starts, it is the place, counted from 1, of the record just read among
   the records of the file being processed. *)
C35_LineNumberPerFile ==
    (last.op = "next_line" /\ last.fired /\ in_kind = "file") =>
        line_number =
            Len(Records(Slice(original, 0, Len(original) - Len(in_data))))


(* C36: the text queued by i is written before every other byte the cycle
   produces after the i: a step that writes while the insert queue holds
   text starts what it writes with that text. *)
C36_InsertBeforeOutput ==
    [][(/\ ~IsNone(insert_space)
        /\ out_file' # out_file)
       => /\ Len(out_file') >= Len(out_file) + Len(Val(insert_space))
          /\ Slice(out_file', Len(out_file),
                   Len(out_file) + Len(Val(insert_space))) = Val(insert_space)]_vars

-----------------------------------------------------------------------------
(* Calls of _pattern_escape_invert, as the constructors of the regex address
   and of s make them, on every pattern of up to MaxPatternLen characters:
   input is the pattern given, script the pattern as the calls made so far
   have left it, i their number *)

PatternChars == {"a", "\\", "+", "("}

InitInvert ==
    /\ commands = <<>>
    /\ InitData({"stdin"}, SeqsUpTo(PatternChars, MaxPatternLen), {DefaultNewline},
                {LINE_BYTE_LIMIT}, "invert")
    /\ script = input

PatternEscapeInvertCall ==
    /\ pc = "invert"
    /\ i < 2
    /\ script' = PatternEscapeInvert(script, InvertedChars)
    /\ i' = i + 1
    /\ last' = Step("invert", i, TRUE, NoSubstitute)
    /\ UNCHANGED <<DatVars, commands, pc, stderr, cycle, acted, file_idx, fs, original,
                   files, in_place, in_place_backup_suffix, in_kind, newline,
                   line_byte_limit, input, exit_code, line_files, WriterVars>>

NextInvert == PatternEscapeInvertCall

SpecInvert == InitInvert /\ [][NextInvert]_vars

\* the pattern with the escaped and the unescaped occurrences of the chars
\* swapped, read from the left: a backslash and the character after it are a
\* pair, which loses the backslash when the character is one of the chars and
\* is kept otherwise; a character of the chars outside a pair gains a backslash
RECURSIVE SwapEscapes(_, _)
SwapEscapes(pattern, chars) ==
    IF pattern = <<>> THEN <<>>
    ELSE IF Head(pattern) = "\\" /\ Len(pattern) >= 2
    THEN (IF pattern[2] \in chars THEN <<pattern[2]>> ELSE <<"\\", pattern[2]>>)
             \o SwapEscapes(SliceFrom(pattern, 2), chars)
    ELSE (IF Head(pattern) \in chars THEN <<"\\", Head(pattern)>> ELSE <<Head(pattern)>>)
             \o SwapEscapes(Tail(pattern), chars)

(* C31: _pattern_escape_invert swaps the escaped and the unescaped occurrences
   of the characters + ? | { } ( ): an escaped one loses its backslash, an
   unescaped one gains one, every other character, an escaped backslash
   before one of them included, stays; two calls give the pattern back. *)
C31_EscapeInvert ==
    (pc = "invert" /\ last.op = "invert") =>
        /\ i = 1 => script = SwapEscapes(input, {InvertedChars[k] : k \in 1..Len(InvertedChars)})
        /\ i = 2 => script = input

-----------------------------------------------------------------------------
(* Runs of main on scripts that start or go on with `;', that hold a line of
   whitespace only, an s command cut short or whole, or a regex address with
   and without an escaped `/' *)

Scripts ==
    {<<"d">>,
     <<";", "d">>,
     <<"d", ";">>,
     <<"d", ";", ";", "p">>,
     <<";", ";", "d">>,
     <<" ", ";", "d">>,
     <<";">>,
     <<" ">>,
     <<"d", "\n", " ">>,
     <<"d", "\n">>,
     <<"\n", "d">>,
     <<"p", ";", ";", ";", "d">>,
     <<"s">>,
     <<"s", "/", "a">>,
     <<"s", "/", "a", "/", "X">>,
     <<"s", "/", "a", "/", "X", "/">>,
     <<"s", "/", "a", "/", "X", "/", ";", "p">>,
     <<"1", "s">>,
     <<"s", "/", "a", "/", "X", "/", "g">>,
     <<"s", "/", "a", "/", "X", "/", "p", " ", ";", "d">>,
     <<"s", "/", "^", "a", "/", "X", "/">>,
     <<"s", "/", "a", "/", "X", "/", "x">>,
     <<"/", "a", "/", "d">>,
     <<"/", "a", "/", "s">>,
     <<"/", "a">>,
     <<"/", "a", "/">>,
     <<"/", "/", "d">>,
     <<"/", "a", "/", "p">>,
     <<"/", "a", "/", " ", "d">>,
     <<"/", "a", "\\", "/", "d", "/", "p">>,
     <<"/", "\\", "/", "/", "d">>,
     <<"/", "a", "\\", "/">>,
     <<"/", "a", "/", "d", ";", "/", "a">>,
     <<"1">>,
     <<"1", ",">>,
     <<"1", ",", "2">>,
     <<"1", "d">>,
     <<"x">>,
     <<"p", ";", "s", "/", "a", "/", "X", "/">>,
     <<"p", ";", " ">>,
     <<"p", ";", "\t">>,
     <<"d", " ", ";">>}

ScriptInputs == {<<>>, <<"a", "\n">>, <<"a", "\n", "b">>, <<"b", "a", "\n">>}

InitScripts == InitScript(Kinds, ScriptInputs, Scripts, {DefaultNewline})

NextScripts ==
    \/ AddScript
    \/ NextLine
    \/ SubstituteCommand
    \/ DeleteCommand
    \/ PrintCommand
    \/ EndCycle
    \/ FinalFlush

SpecScripts == InitScripts /\ [][NextScripts]_vars


(* C39: the compilation of a script ends for every finite script: the loop
   over a line never goes round without having consumed a character of the
   line or raised, also on a line that starts with `;' or holds several `;'
   in a row, so that add_script returns or raises. *)
C39_CompilationEnds ==
    pc = "add_script" => AddScriptEnd(script).kind \in {"ok", "error", "IndexError"}

\* the details of the SedParsingException that the parser raises on a script
Details(script_text) ==
    {"Not a range sequence", "unexpected `,'", "Not a regex sequence",
     "unterminated address regex", "unterminated `s' command",
     "extra characters after command", "missing command"}
        \cup {"Invalid command: " \o script_text[k] : k \in 1..Len(script_text)}

(* C37: a script that cannot be compiled (a bare s, a command cut short by
   the end of the text, a line of whitespace only) is rejected with a message
   `Error at expression #n, char pos: detail'; the parser does not read past
   the end of the text and fails with no other kind of error. *)
C37_RejectedAsParseError ==
    (pc = "error" /\ last.op = "add_script") =>
        \E n \in 1..(Len(script) + 1), pos \in 1..(Len(script) + 1),
           detail \in Details(script) :
            stderr = Some(Report(ErrorAt(n, pos, detail)))

\* the place, from 0, of the first char at or after k that no backslash
\* escapes, a backslash and the character after it being a pair; -1 if none
RECURSIVE Unescaped(_, _, _)
Unescaped(text, k, char) ==
    IF k >= Len(text) THEN -1
    ELSE IF text[k + 1] = "\\" THEN Unescaped(text, k + 2, char)
    ELSE IF text[k + 1] = char THEN k
    ELSE Unescaped(text, k + 1, char)

\* the first line of the script and the regex address read from it
FirstLine == ScriptLines(script)[1]

FirstAddress == RegexFromString(StringParser(FirstLine))

(* C32: a regex address is read from its leading `/' to the first `/' that
   no backslash escapes and its pattern is the text between the two, an
   escaped `/' being part of the pattern; when no unescaped `/' follows, the
   script is rejected. *)
C32_RegexAddress ==
    (last.op = "add_script" /\ script # <<>> /\ script[1] = "/") =>
        IF Unescaped(FirstLine, 1, "/") < 0 THEN pc = "error"
        ELSE /\ FirstAddress.raise = ""
             /\ FirstAddress.sp.pos = Unescaped(FirstLine, 1, "/") + 1
             /\ Slice(FirstLine, FirstAddress.sp.mark, FirstAddress.sp.pos - 1)
                    = Slice(FirstLine, 1, Unescaped(FirstLine, 1, "/"))

-----------------------------------------------------------------------------
(* Runs of the loop  :L ; s/A/X/ ; t L  on lines that hold A and lines that
   do not *)

LoopPrograms ==
    {<<LabelCommand("L"), SubstituteFirst(NoCondition, find),
       Branch("t", NoCondition, "L")>> : find \in {<<"a">>, <<"b">>}}

LoopInputs == SeqsUpTo({"a", "\n"}, MaxLoopInput)

InitLoop == InitRun(Kinds, LoopInputs, LoopPrograms)

NextLoop ==
    \/ NextLine
    \/ Label
    \/ SubstituteCommand
    \/ TestBranchCommand
    \/ EndCycle
    \/ FinalFlush

SpecLoop == InitLoop /\ [][NextLoop]_vars

(* C38: a cycle running  :L ; s/A/B/ ; t L  ends once the substitution stops
   matching: after an s of the loop that has made no substitution, the t that
   follows does not branch, and the run goes on past the t to the end of the
   program. *)
C38_LoopEnds ==
    [][(/\ pc = "commands"
        /\ i < Len(commands)
        /\ commands[i + 1].cmd = "t"
        /\ last.op = "s"
        /\ last.fired
        /\ ~last.matched)
       => /\ i' = i + 1
          /\ pc' = "flush"]_vars

-----------------------------------------------------------------------------
(* Runs of n and N, alone and after i and a, with a p or an a after them *)

NextPrograms ==
    {<<Command(cmd, NoCondition), Command("p", NoCondition)>> : cmd \in {"n", "N"}} \cup
    {<<Command(cmd, NoCondition), WithText("a", NoCondition, <<"U">>)>> :
        cmd \in {"n", "N"}} \cup
    {<<WithText("i", NoCondition, <<"J">>), WithText("a", NoCondition, <<"U">>),
       Command(cmd, NoCondition), Command("p", NoCondition)>> : cmd \in {"n", "N"}}

NextInputs == SeqsUpTo({"a", "\n"}, MaxNextInput)

InitNext == InitRun(Kinds, NextInputs, NextPrograms)

NextNext ==
    \/ NextLine
    \/ InsertCommand
    \/ AppendCommand
    \/ NextCommand
    \/ AppendNextCommand
    \/ PrintCommand
    \/ EndCycle
    \/ FinalFlush

SpecNext == InitNext /\ [][NextNext]_vars

(* C33: when n or N is executed and the input holds no further record, the
   insert queue, the pattern space and the append queue are written once
   each, in that order, no later command of the program is executed, and the
   loop over the records of the file ends with nothing more written. *)
C33_NextAtEnd ==
    /\ [][((Handles("n") \/ Handles("N")) /\ in_data = <<>>)
          => /\ out_file' = out_file \o Bytes(insert_space) \o Val(pattern_space)
                                \o Bytes(append_space)
             /\ IsNone(insert_space') /\ IsNone(pattern_space') /\ IsNone(append_space')
             /\ pc' = "flush"
             /\ ~in_file_iter']_vars
    /\ [][(pc \in {"flush", "next_line", "final_flush"} /\ ~in_file_iter
               /\ IsNone(pattern_space))
          => /\ out_file' = out_file
             /\ pc' \in {"next_line", "final_flush", "done"}]_vars

-----------------------------------------------------------------------------
(* Runs of R on the file g, which may be missing, may be an input file and
   may be edited in place, over one or two input files, under the record
   limit of the class and under limits that the files reach: one R, with
   and without an address, and two R on the same file *)

LineFrom(cond, file_path) == [Command("R", cond) EXCEPT !.file_path = file_path]

AppendLinePrograms ==
    {<<LineFrom(cond, "g")>> : cond \in FirstLines} \cup
    {<<LineFrom(NoCondition, "g"), LineFrom(NoCondition, "g")>>}

InitAppendLine ==
    InitFilesOf(AppendLinePrograms, {"g"}, {LINE_BYTE_LIMIT} \cup 1..MaxLimit)

NextAppendLine ==
    \/ SetInFile
    \/ NextLine
    \/ AppendLineFromFile
    \/ EndCycle
    \/ FinalFlush
    \/ Backup
    \/ Remove
    \/ CopyTemp

SpecAppendLine == InitAppendLine /\ [][NextAppendLine]_vars

\* the records of the file of the R command at the place k of the program:
\* of the file as it is before the first call, as it was opened after it
LineRecords(k) ==
    Records(IF LineFile(k).firings = 0 THEN Bytes(fs[commands[k].file_path])
            ELSE LineFile(k).content)

(* C34: of the calls of one R command in a run, the k-th queues the k-th
   record of its file, and nothing else, on the append queue; a call after
   the last record, and every call when the file cannot be opened, queues
   nothing; the file is opened once in the run, also when the run goes from
   one input file to the next. *)
C34_AppendLineFromFile ==
    [][Handles("R") =>
         /\ append_space' =
                IF LineFile(i + 1).firings + 1 <= Len(LineRecords(i + 1))
                THEN Some(Bytes(append_space)
                              \o LineRecords(i + 1)[LineFile(i + 1).firings + 1])
                ELSE append_space
         /\ line_files'[i + 1].firings = LineFile(i + 1).firings + 1
         /\ LineFile(i + 1).firings > 0 =>
                line_files'[i + 1].content = LineFile(i + 1).content]_vars

=============================================================================
